---- MODULE Spec2Model ----
(***************************************************************************)
(* Quota-aware spot-quote cache of GoldPricePredictor                      *)
(* (src/gold_predictor/gold_predictor.py), the retry loop of               *)
(* CNBCFinancialScraper (src/gold_predictor/financial_scraper.py) and the  *)
(* indicators of TechnicalIndicatorsEngine                                 *)
(* (src/gold_predictor/technical_indicators.py).                           *)
(*                                                                         *)
(* The clock `now` counts seconds since a Monday 00:00; the host clock and *)
(* the London clock are taken to be the same clock.  In Spec, SpecQuota    *)
(* and SpecPoll every public method is one atomic action and the upstream  *)
(* reply is an input of the action; SpecThreads takes                      *)
(* get_cached_or_fresh_data apart into the steps two threads interleave.   *)
(* Floating-point numbers are modelled as exact rationals: prices are      *)
(* whole thousandths of a dollar, rounded values whole hundredths.         *)
(***************************************************************************)
EXTENDS Integers, Sequences, FiniteSets, TLC

VARIABLES
    now,                \* wall clock, seconds since a Monday 00:00
    ticks,              \* number of clock advances so far (bounds the run)
    api_calls_today,    \* self.api_calls_today
    last_call_date,     \* self.last_call_date (a day number, or NoneInt)
    calls_this_month,   \* self.calls_this_month
    last_fetch_time,    \* self.last_fetch_time (an instant, or NoneInt)
    cached_api_data,    \* self.cached_api_data (a document, or NoneDoc)
    cached_price_usd,   \* self.cached_price_usd (a price, or NoneInt)
    last_error_code,    \* self.last_error_code (a code, or NoneInt)
    last_error_message, \* self.last_error_message (a text, or NoneStr)
    usd_gbp_rate,       \* self.usd_gbp_rate, in hundredths
    callers,            \* the threads inside get_cached_or_fresh_data: position and locals
    scrape,             \* the call of get_instrument_data: position and locals
    historical_data,    \* the records handed to get_comprehensive_analysis, newest first
    indicator_data,     \* the indicator map handed to calculate_weighted_sentiment
    args,               \* the arguments handed to a method called on its own
    gui,                \* GoldPredictorGUI: the workers, the button, the queued signals
    sent_this_month,    \* history: upstream requests tallied by the polling client
    last                \* history: the last operation, its arguments and its result

vars == <<now, ticks, api_calls_today, last_call_date, calls_this_month,
          last_fetch_time, cached_api_data, cached_price_usd,
          last_error_code, last_error_message, usd_gbp_rate, callers, scrape,
          historical_data, indicator_data, args, gui, sent_this_month, last>>

quota_vars == <<api_calls_today, last_call_date, calls_this_month>>
cache_vars == <<last_fetch_time, cached_api_data>>
error_vars == <<last_error_code, last_error_message>>
engine_vars == <<historical_data, indicator_data>>
client_vars == <<args, gui>>

---------------------------------------------------------------------------
(* Bounds of the model *)

MaxTicks == 3
MaxCallsToday == 1
MaxQuotaDays == 1
MaxLen == 61
MaxIndicators == 3
MaxInstruments == 3
MaxStart == 60
MaxSpread == 201

---------------------------------------------------------------------------
(* Python's None, for integer-valued, text-valued and document-valued slots *)

NoneInt == -1
NoneStr == "None"
NoneDoc == "None"

(* Program constants *)

monthly_limit == 600
days_in_month == 30
StaleSeconds == 1800
SecondsPerMinute == 60
SecondsPerHour == 3600
SecondsPerDay == 86400
DaysPerWeek == 7
HttpOk == 200
CodeSuccess == 1
FallbackPrice == 2650
DefaultRate == 79
max_retries == 2
RetryWait == 2

---------------------------------------------------------------------------
(* Clock: datetime.now(), .date(), .weekday(), .hour *)

DateOf(t) == t \div SecondsPerDay
WeekdayOf(t) == DateOf(t) % DaysPerWeek
HourOf(t) == (t % SecondsPerDay) \div SecondsPerHour

(* variant: on Sunday the market opens after the 22:00 hour *)
is_london_trading_hours_sunday_23(t) ==
    IF WeekdayOf(t) = 6 THEN HourOf(t) > 22
    ELSE IF WeekdayOf(t) = 5 THEN FALSE
    ELSE IF WeekdayOf(t) = 4 /\ HourOf(t) >= 22 THEN FALSE
    ELSE TRUE

is_london_trading_hours(t) ==
    IF WeekdayOf(t) = 6 THEN HourOf(t) >= 22
    ELSE IF WeekdayOf(t) = 5 THEN FALSE
    ELSE IF WeekdayOf(t) = 4 /\ HourOf(t) >= 22 THEN FALSE
    ELSE TRUE

---------------------------------------------------------------------------
(* Upstream replies.  raised: requests.get (or response.json) raised;      *)
(* status: the HTTP status; doc: the JSON body ("{}" is the empty object); *)
(* code: the body's 'code' member (NoneInt when the body has none);        *)
(* msg: the body's 'msg' member (NoneStr when the body has none).          *)

Reply(raised, status, doc, code, msg) ==
    [raised |-> raised, status |-> status, doc |-> doc, code |-> code, msg |-> msg]

NoReply == Reply(FALSE, 0, NoneDoc, NoneInt, NoneStr)
EmptyDoc == "{}"
GoldDoc == "quotes with London Gold"
SilverDoc == "quotes without London Gold"
ErrorDoc == "error body"

SpotReplies ==
    { Reply(TRUE, 0, NoneDoc, NoneInt, NoneStr),
      Reply(FALSE, 500, NoneDoc, NoneInt, NoneStr),
      Reply(FALSE, HttpOk, GoldDoc, CodeSuccess, "success"),
      Reply(FALSE, HttpOk, SilverDoc, NoneInt, NoneStr),
      Reply(FALSE, HttpOk, EmptyDoc, NoneInt, NoneStr),
      Reply(FALSE, HttpOk, ErrorDoc, 10007, "limit reached"),
      Reply(FALSE, HttpOk, ErrorDoc, 10009, "try later") }

(* Python truthiness of a document: None and {} are falsy *)
Truthy(doc) == doc # NoneDoc /\ doc # EmptyDoc

(* float(london_gold['price']) of the 伦敦金 item, NoneInt when the list has none *)
LondonGoldPrice(doc) == IF doc = GoldDoc THEN 2700 ELSE NoneInt

(* 'data' in data and 'list' in data['data'] *)
HasList(doc) == doc \in {GoldDoc, SilverDoc}

---------------------------------------------------------------------------
(* Messages and labels: kind is the fixed wording, n the number and text   *)
(* the text formatted into it.                                             *)

Msg(kind, n, text) == [kind |-> kind, n |-> n, text |-> text]

(* self.error_codes: the keys of the table and the description of each *)
ErrorCodes == 10001..10008

error_codes(c) ==
    CASE c = 10001 -> "Invalid API Key"
      [] c = 10002 -> "Key has no request permission"
      [] c = 10003 -> "API Key expired"
      [] c = 10004 -> "Unknown request source"
      [] c = 10005 -> "Banned IP address"
      [] c = 10006 -> "Banned API Key"
      [] c = 10007 -> "Request limit exceeded"
      [] c = 10008 -> "API under maintenance"

get_error_description(c) ==
    IF c \in ErrorCodes THEN error_codes(c)
    ELSE "Unknown error code: " \o ToString(c)

(* data.get('msg', 'Unknown error') *)
ReplyMsg(reply) == IF reply.msg = NoneStr THEN "Unknown error" ELSE reply.msg

(* 'code' in data and data['code'] != 1 *)
HasErrorCode(reply) == reply.code # NoneInt /\ reply.code # CodeSuccess

(* variant: every code is described through get_error_description *)
ApiErrorMessage_generic(reply) ==
    Msg("API Error", reply.code, get_error_description(reply.code))

(* the message returned for an embedded error code *)
ApiErrorMessage(reply) ==
    IF reply.code \in ErrorCodes
    THEN Msg("API Error", reply.code, get_error_description(reply.code))
    ELSE Msg("API Error", reply.code, ReplyMsg(reply))

(* variant: the success branch leaves the error slot as it was *)
HandleReply_keeps_error(reply, okMessage) ==
    IF reply.raised
    THEN [success |-> FALSE, data |-> NoneDoc, message |-> Msg("Request failed", 0, ""),
          sent |-> 1, ecode |-> last_error_code, emsg |-> last_error_message]
    ELSE IF reply.status # HttpOk
    THEN [success |-> FALSE, data |-> NoneDoc,
          message |-> Msg("HTTP Error", reply.status, ""),
          sent |-> 1, ecode |-> last_error_code, emsg |-> last_error_message]
    ELSE IF HasErrorCode(reply)
    THEN [success |-> FALSE, data |-> NoneDoc, message |-> ApiErrorMessage(reply),
          sent |-> 1, ecode |-> reply.code, emsg |-> ReplyMsg(reply)]
    ELSE [success |-> TRUE, data |-> reply.doc, message |-> okMessage,
          sent |-> 1, ecode |-> last_error_code, emsg |-> last_error_message]

(* variant: a non-200 status is recorded in the error slot *)
HandleReply_records_status(reply, okMessage) ==
    IF reply.raised
    THEN [success |-> FALSE, data |-> NoneDoc, message |-> Msg("Request failed", 0, ""),
          sent |-> 1, ecode |-> last_error_code, emsg |-> last_error_message]
    ELSE IF reply.status # HttpOk
    THEN [success |-> FALSE, data |-> NoneDoc,
          message |-> Msg("HTTP Error", reply.status, ""),
          sent |-> 1, ecode |-> reply.status, emsg |-> "HTTP Error"]
    ELSE IF HasErrorCode(reply)
    THEN [success |-> FALSE, data |-> NoneDoc, message |-> ApiErrorMessage(reply),
          sent |-> 1, ecode |-> reply.code, emsg |-> ReplyMsg(reply)]
    ELSE [success |-> TRUE, data |-> reply.doc, message |-> okMessage,
          sent |-> 1, ecode |-> NoneInt, emsg |-> NoneStr]

(* What an upstream exchange does to (success, data, message) and to the   *)
(* error slot: the part shared by both fetch methods.  okMessage is the    *)
(* message of the success branch.                                          *)
HandleReply(reply, okMessage) ==
    IF reply.raised
    THEN [success |-> FALSE, data |-> NoneDoc, message |-> Msg("Request failed", 0, ""),
          sent |-> 1, ecode |-> last_error_code, emsg |-> last_error_message]
    ELSE IF reply.status # HttpOk
    THEN [success |-> FALSE, data |-> NoneDoc,
          message |-> Msg("HTTP Error", reply.status, ""),
          sent |-> 1, ecode |-> last_error_code, emsg |-> last_error_message]
    ELSE IF HasErrorCode(reply)
    THEN [success |-> FALSE, data |-> NoneDoc, message |-> ApiErrorMessage(reply),
          sent |-> 1, ecode |-> reply.code, emsg |-> ReplyMsg(reply)]
    ELSE [success |-> TRUE, data |-> reply.doc, message |-> okMessage,
          sent |-> 1, ecode |-> NoneInt, emsg |-> NoneStr]

(* variant: a failed request is sent a second time *)
fetch_gold_price_from_api_retries(force, reply) ==
    IF ~force /\ ~is_london_trading_hours(now)
    THEN [success |-> FALSE, data |-> NoneDoc,
          message |-> Msg("Outside trading hours", HourOf(now), ""),
          sent |-> 0, ecode |-> last_error_code, emsg |-> last_error_message]
    ELSE [HandleReply(reply, Msg("Success", 0, "")) EXCEPT
              !.sent = IF HandleReply(reply, Msg("Success", 0, "")).success THEN 1 ELSE 2]

(* fetch_gold_price_from_api(force): the trading-hours gate, then the request *)
fetch_gold_price_from_api(force, reply) ==
    IF ~force /\ ~is_london_trading_hours(now)
    THEN [success |-> FALSE, data |-> NoneDoc,
          message |-> Msg("Outside trading hours", HourOf(now), ""),
          sent |-> 0, ecode |-> last_error_code, emsg |-> last_error_message]
    ELSE HandleReply(reply, Msg("Success", 0, ""))

---------------------------------------------------------------------------
(* The exchange-rate service.  A reply is a Reply whose document, when it  *)
(* has 'rates' with 'GBP', gives the rate (0.80 in the reply tried).       *)

RatesDoc == "rates with GBP"
GbpRate(doc) == IF doc = RatesDoc THEN 80 ELSE NoneInt

RateReply == Reply(FALSE, HttpOk, RatesDoc, NoneInt, NoneStr)
RateReplies == { Reply(TRUE, 0, NoneDoc, NoneInt, NoneStr), RateReply }

(* get_usd_gbp_rate: self.usd_gbp_rate after the call *)
get_usd_gbp_rate(reply) ==
    IF ~reply.raised /\ reply.status = HttpOk /\ GbpRate(reply.doc) # NoneInt
    THEN GbpRate(reply.doc)
    ELSE usd_gbp_rate

---------------------------------------------------------------------------
(* get_cached_or_fresh_data *)

(* variant: the entry expires on reaching the threshold *)
should_fetch_at_threshold(force_refresh) ==
    \/ force_refresh
    \/ last_fetch_time = NoneInt
    \/ now - last_fetch_time >= StaleSeconds

(* variant: the entry never expires *)
should_fetch_no_expiry(force_refresh) ==
    \/ force_refresh
    \/ last_fetch_time = NoneInt

should_fetch(force_refresh) ==
    \/ force_refresh
    \/ last_fetch_time = NoneInt
    \/ now - last_fetch_time > StaleSeconds

age_minutes == (now - last_fetch_time) \div SecondsPerMinute

(* The result of get_cached_or_fresh_data and the cache it leaves behind.  *)
(* A fetch asks the exchange-rate service first (line 391; rate is its     *)
(* reply), then the quotes, without the force flag (line 394).  external   *)
(* counts the requests made to either service.                             *)
get_cached_or_fresh_data(force_refresh, rate, reply) ==
    IF should_fetch(force_refresh)
    THEN LET f == fetch_gold_price_from_api(FALSE, reply) IN
         IF f.success /\ Truthy(f.data)
         THEN [ok |-> TRUE, data |-> f.data, label |-> Msg("LIVE London Gold Market", 0, ""),
               attempted |-> TRUE, sent |-> f.sent, external |-> 1 + f.sent,
               gbp |-> get_usd_gbp_rate(rate),
               cache |-> f.data, fetched |-> now, ecode |-> f.ecode, emsg |-> f.emsg]
         ELSE [ok |-> FALSE, data |-> NoneDoc, label |-> f.message,
               attempted |-> TRUE, sent |-> f.sent, external |-> 1 + f.sent,
               gbp |-> get_usd_gbp_rate(rate),
               cache |-> cached_api_data, fetched |-> last_fetch_time,
               ecode |-> f.ecode, emsg |-> f.emsg]
    ELSE IF Truthy(cached_api_data)
    THEN [ok |-> TRUE, data |-> cached_api_data, label |-> Msg("Cached", age_minutes, "min old"),
          attempted |-> FALSE, sent |-> 0, external |-> 0, gbp |-> usd_gbp_rate,
          cache |-> cached_api_data, fetched |-> last_fetch_time,
          ecode |-> last_error_code, emsg |-> last_error_message]
    ELSE [ok |-> FALSE, data |-> NoneDoc, label |-> Msg("No data available", 0, ""),
          attempted |-> FALSE, sent |-> 0, external |-> 0, gbp |-> usd_gbp_rate,
          cache |-> cached_api_data, fetched |-> last_fetch_time,
          ecode |-> last_error_code, emsg |-> last_error_message]

(* The record of an operation: what was asked, what came back, whether the *)
(* cache decided to fetch, how many requests went to the rate-limited API, *)
(* the reply to the request (NoReply when none was sent: every action      *)
(* takes a reply exactly when it sends a request), the age of the cache    *)
(* entry at the call, the price returned (get_current_gold_price only),    *)
(* and the number of requests made to any external service.                *)
Done(op, force, ok, data, label, attempted, sent, reply, age, price, external) ==
    [op |-> op, force |-> force, ok |-> ok, data |-> data, label |-> label,
     attempted |-> attempted, sent |-> sent,
     reply |-> reply, age |-> age, price |-> price, external |-> external]

(* seconds since the last successful fetch, NoneInt when there was none *)
CacheAge == IF last_fetch_time = NoneInt THEN NoneInt ELSE now - last_fetch_time

(* one call of get_cached_or_fresh_data, the request tally left aside *)
GetStep(force_refresh, rate, reply) ==
    /\ should_fetch(force_refresh) = (rate # NoReply)
    /\ \E g \in {get_cached_or_fresh_data(force_refresh, rate, reply)} :
          /\ (g.sent = 0) = (reply = NoReply)
          /\ cached_api_data' = g.cache
          /\ last_fetch_time' = g.fetched
          /\ last_error_code' = g.ecode
          /\ last_error_message' = g.emsg
          /\ usd_gbp_rate' = g.gbp
          /\ last' = Done("get_cached_or_fresh_data", force_refresh, g.ok, g.data, g.label,
                          g.attempted, g.sent, reply, CacheAge, NoneInt, g.external)
          /\ UNCHANGED <<now, ticks, quota_vars, cached_price_usd, callers, scrape,
                         engine_vars, client_vars>>

GetCachedOrFreshData(force_refresh, rate, reply) ==
    /\ GetStep(force_refresh, rate, reply)
    /\ UNCHANGED sent_this_month

---------------------------------------------------------------------------
(* The accessors built on get_cached_or_fresh_data *)

(* get_current_gold_price: the price of the London Gold item of the data   *)
(* just obtained; else the remembered price, labelled with the age of the  *)
(* cache entry; else the fallback estimate.  cached_london_price is        *)
(* assigned together with cached_price_usd and always equals it.           *)
get_current_gold_price(force_refresh, rate, reply) ==
    LET g == get_cached_or_fresh_data(force_refresh, rate, reply) IN
    IF g.ok /\ Truthy(g.data) /\ HasList(g.data) /\ LondonGoldPrice(g.data) # NoneInt
    THEN [price |-> LondonGoldPrice(g.data), source |-> g.label,
          remembered |-> LondonGoldPrice(g.data), from |-> "data", get |-> g]
    ELSE IF cached_price_usd # NoneInt /\ cached_price_usd # 0
    THEN [price |-> cached_price_usd,
          source |-> Msg("Cached", (now - g.fetched) \div SecondsPerMinute, "min old"),
          remembered |-> cached_price_usd, from |-> "remembered", get |-> g]
    ELSE [price |-> FallbackPrice, source |-> Msg("Fallback estimate", 0, ""),
          remembered |-> cached_price_usd, from |-> "fallback", get |-> g]

GetCurrentGoldPrice(force_refresh, rate, reply) ==
    /\ should_fetch(force_refresh) = (rate # NoReply)
    /\ \E p \in {get_current_gold_price(force_refresh, rate, reply)} :
          /\ (p.get.sent = 0) = (reply = NoReply)
          /\ usd_gbp_rate' = p.get.gbp
          /\ cached_api_data' = p.get.cache
          /\ last_fetch_time' = p.get.fetched
          /\ last_error_code' = p.get.ecode
          /\ last_error_message' = p.get.emsg
          /\ cached_price_usd' = p.remembered
          /\ last' = Done("get_current_gold_price", force_refresh, p.from # "fallback",
                          IF p.from = "data" THEN p.get.data ELSE NoneDoc, p.source,
                          p.get.attempted, p.get.sent, reply, CacheAge, p.price, p.get.external)
          /\ UNCHANGED <<now, ticks, quota_vars, sent_this_month, callers, scrape,
                         engine_vars, client_vars>>

(* get_detailed_market_info: the processed list, or {"error": source} *)
get_detailed_market_info(force_refresh, rate, reply) ==
    LET g == get_cached_or_fresh_data(force_refresh, rate, reply) IN
    [ok |-> g.ok /\ Truthy(g.data) /\ HasList(g.data), get |-> g]

GetDetailedMarketInfo(force_refresh, rate, reply) ==
    /\ should_fetch(force_refresh) = (rate # NoReply)
    /\ \E m \in {get_detailed_market_info(force_refresh, rate, reply)} :
          /\ (m.get.sent = 0) = (reply = NoReply)
          /\ usd_gbp_rate' = m.get.gbp
          /\ cached_api_data' = m.get.cache
          /\ last_fetch_time' = m.get.fetched
          /\ last_error_code' = m.get.ecode
          /\ last_error_message' = m.get.emsg
          /\ last' = Done("get_detailed_market_info", force_refresh, m.ok,
                          IF m.ok THEN m.get.data ELSE NoneDoc, m.get.label,
                          m.get.attempted, m.get.sent, reply, CacheAge, NoneInt, m.get.external)
          /\ UNCHANGED <<now, ticks, quota_vars, cached_price_usd, sent_this_month,
                         callers, scrape, engine_vars, client_vars>>

(* get_raw_api_response: the data, or {"error": source} *)
get_raw_api_response(force_refresh, rate, reply) ==
    LET g == get_cached_or_fresh_data(force_refresh, rate, reply) IN
    [ok |-> g.ok, get |-> g]

GetRawApiResponse(force_refresh, rate, reply) ==
    /\ should_fetch(force_refresh) = (rate # NoReply)
    /\ \E m \in {get_raw_api_response(force_refresh, rate, reply)} :
          /\ (m.get.sent = 0) = (reply = NoReply)
          /\ usd_gbp_rate' = m.get.gbp
          /\ cached_api_data' = m.get.cache
          /\ last_fetch_time' = m.get.fetched
          /\ last_error_code' = m.get.ecode
          /\ last_error_message' = m.get.emsg
          /\ last' = Done("get_raw_api_response", force_refresh, m.ok,
                          IF m.ok THEN m.get.data ELSE NoneDoc, m.get.label,
                          m.get.attempted, m.get.sent, reply, CacheAge, NoneInt, m.get.external)
          /\ UNCHANGED <<now, ticks, quota_vars, cached_price_usd, sent_this_month,
                         callers, scrape, engine_vars, client_vars>>

(* fetch_gold_price_from_api called on its own *)
FetchGoldPriceFromApi(force, reply) ==
    \E f \in {fetch_gold_price_from_api(force, reply)} :
    /\ (f.sent = 0) = (reply = NoReply)
    /\ last_error_code' = f.ecode
    /\ last_error_message' = f.emsg
    /\ last' = Done("fetch_gold_price_from_api", force, f.success, f.data, f.message,
                    TRUE, f.sent, reply, CacheAge, NoneInt, f.sent)
    /\ UNCHANGED <<now, ticks, quota_vars, cache_vars, cached_price_usd, sent_this_month,
                   usd_gbp_rate, callers, scrape, engine_vars, client_vars>>

---------------------------------------------------------------------------
(* Quota bookkeeping *)

(* check_quota_availability(calls_needed): the comparison                  *)
(*   api_calls_today + calls_needed > (monthly_limit / days_in_month) * 1.5 *)
(* over the rationals (600/30 and 20.0 * 1.5 are exact in floating point)  *)
check_quota_availability(calls_needed) ==
    ~ ((api_calls_today + calls_needed) * days_in_month * 2 > monthly_limit * 3)

(* update_api_quota: the counters after the call *)
update_api_quota ==
    [today |-> IF last_call_date # DateOf(now) THEN 1 ELSE api_calls_today + 1,
     date |-> DateOf(now)]

(* track_api_call: the counters after the call (no caller in the repository) *)
track_api_call ==
    [today |-> IF last_call_date # DateOf(now) THEN 1 ELSE api_calls_today + 1,
     date |-> DateOf(now),
     month |-> calls_this_month + 1]

available_products ==
    {"XAU", "XAG", "XPT", "XPD", "HKD", "TWAU", "Au9995", "Au9999", "Au100g",
     "PT9995", "Ag9999", "AuT+D", "AgT+D"}

valid_types == {"1", "2", "3"}

KlineDoc == "kline records"

HistoryReplies ==
    { Reply(TRUE, 0, NoneDoc, NoneInt, NoneStr),
      Reply(FALSE, 500, NoneDoc, NoneInt, NoneStr),
      Reply(FALSE, HttpOk, KlineDoc, CodeSuccess, "success"),
      Reply(FALSE, HttpOk, ErrorDoc, 10001, "bad key"),
      Reply(FALSE, HttpOk, ErrorDoc, 10009, NoneStr) }

(* the (product, type, limit) requests tried *)
HistoryRequests ==
    { <<"XAU", "1", 30>>, <<"GOLD", "1", 30>>, <<"XAU", "7", 30>>, <<"XAU", "1", 1001>> }

(* len(data.get('data', {}).get('list', [])) *)
RecordsCount(doc, limit) == IF doc = KlineDoc THEN limit ELSE 0

(* fetch_historical_data: the quota check, the validation, the bookkeeping *)
(* and the request                                                         *)
fetch_historical_data(product, data_type, limit, force, reply) ==
    LET refused(message) ==
            [success |-> FALSE, data |-> NoneDoc, message |-> message, sent |-> 0,
             ecode |-> last_error_code, emsg |-> last_error_message,
             today |-> api_calls_today, date |-> last_call_date]
    IN
    IF ~force /\ ~check_quota_availability(1)
    THEN refused(Msg("Quota check failed", api_calls_today, "Daily quota exceeded"))
    ELSE IF product \notin available_products
    THEN refused(Msg("Product not available", 0, product))
    ELSE IF data_type \notin valid_types
    THEN refused(Msg("Invalid type", 0, data_type))
    ELSE IF limit <= 0 \/ limit > 1000
    THEN refused(Msg("Limit must be between 1 and 1000", limit, ""))
    ELSE LET h == HandleReply(reply, Msg("Success", RecordsCount(reply.doc, limit), "records"))
         IN  [success |-> h.success, data |-> h.data, message |-> h.message,
              sent |-> h.sent, ecode |-> h.ecode, emsg |-> h.emsg,
              today |-> update_api_quota.today, date |-> update_api_quota.date]

FetchHistoricalData(product, data_type, limit, force, reply) ==
    \E f \in {fetch_historical_data(product, data_type, limit, force, reply)} :
    /\ (f.sent = 0) = (reply = NoReply)
    /\ api_calls_today' = f.today
    /\ last_call_date' = f.date
    /\ last_error_code' = f.ecode
    /\ last_error_message' = f.emsg
    /\ last' = Done("fetch_historical_data", force, f.success, f.data, f.message,
                    FALSE, f.sent, reply, CacheAge, NoneInt, f.sent)
    /\ UNCHANGED <<now, ticks, calls_this_month, cache_vars, cached_price_usd,
                   sent_this_month, usd_gbp_rate, callers, scrape, engine_vars, client_vars>>

---------------------------------------------------------------------------
(* The clock *)

(* The instants the program is started at: Thursday 23:31 and Friday 21:31, *)
(* so that a date change and the market's close are both 29 minutes away.  *)
StartTimes ==
    { 3 * SecondsPerDay + 23 * SecondsPerHour + 31 * SecondsPerMinute,
      4 * SecondsPerDay + 21 * SecondsPerHour + 31 * SecondsPerMinute }
TickSteps == { SecondsPerMinute, 29 * SecondsPerMinute }

Advance(d) ==
    /\ now' = now + d
    /\ ticks' = ticks + 1
    /\ last' = Done("tick", FALSE, FALSE, NoneDoc, Msg("", 0, ""), FALSE, 0, NoReply,
                    NoneInt, NoneInt, 0)
    /\ UNCHANGED <<quota_vars, cache_vars, cached_price_usd, error_vars, sent_this_month,
                   usd_gbp_rate, callers, scrape, engine_vars, client_vars>>

Tick(d) ==
    /\ ticks < MaxTicks
    /\ Advance(d)

---------------------------------------------------------------------------

(* Calls under way: two threads that call get_cached_or_fresh_data on the  *)
(* one predictor, and the call of get_instrument_data.  pc is the          *)
(* position; the other fields are the locals of the call.                  *)
Callers == {"caller1", "caller2"}

IdleCaller ==
    [pc |-> "idle", force |-> FALSE, current_time |-> NoneInt, should_fetch |-> FALSE,
     success |-> FALSE, data |-> NoneDoc, message |-> Msg("", 0, ""), sent |-> 0,
     result |-> [ok |-> FALSE, data |-> NoneDoc, label |-> Msg("", 0, "")]]

(* the result of get_instrument_data: None, or the quote with the symbol   *)
(* of the instrument and the price data of the response of one attempt     *)
NoQuote == [symbol |-> NoneStr, attempt |-> NoneInt]
Quote(symbol, attempt) == [symbol |-> symbol, attempt |-> attempt]

NoScrape ==
    [pc |-> "idle", key |-> NoneStr, attempt |-> 0, sent |-> 0, replies |-> <<>>,
     result |-> NoQuote]

(* no records, and the empty indicator map *)
NoRecords == <<>>
NoIndicators == [name \in {} |-> "Neutral"]

(* no method called on its own, and no window *)
NoArgs == [method |-> NoneStr]
NoGui == [window |-> FALSE]

(* the fields after GoldPricePredictor.__init__, with no call under way *)
Constructed ==
    /\ ticks = 0
    /\ api_calls_today = 0
    /\ last_call_date = NoneInt
    /\ calls_this_month = 0
    /\ last_fetch_time = NoneInt
    /\ cached_api_data = NoneDoc
    /\ cached_price_usd = NoneInt
    /\ last_error_code = NoneInt
    /\ last_error_message = NoneStr
    /\ usd_gbp_rate = DefaultRate
    /\ callers = [c \in Callers |-> IdleCaller]
    /\ scrape = NoScrape
    /\ sent_this_month = 0
    /\ last = Done("init", FALSE, FALSE, NoneDoc, Msg("", 0, ""), FALSE, 0, NoReply,
                   NoneInt, NoneInt, 0)

Init ==
    /\ now \in StartTimes
    /\ Constructed
    /\ historical_data = NoRecords
    /\ indicator_data = NoIndicators
    /\ args = NoArgs
    /\ gui = NoGui

Next ==
    \/ \E d \in TickSteps : Tick(d)
    \/ \E f \in BOOLEAN, x \in {RateReply, NoReply}, r \in SpotReplies \cup {NoReply} :
          GetCachedOrFreshData(f, x, r)
    \/ \E f \in BOOLEAN, x \in {RateReply, NoReply}, r \in SpotReplies \cup {NoReply} :
          GetCurrentGoldPrice(f, x, r)
    \/ \E f \in BOOLEAN, x \in {RateReply, NoReply}, r \in SpotReplies \cup {NoReply} :
          GetDetailedMarketInfo(f, x, r)
    \/ \E f \in BOOLEAN, x \in {RateReply, NoReply}, r \in SpotReplies \cup {NoReply} :
          GetRawApiResponse(f, x, r)
    \/ \E f \in BOOLEAN, r \in SpotReplies \cup {NoReply} : FetchGoldPriceFromApi(f, r)
    \/ /\ api_calls_today < MaxCallsToday
       /\ \E q \in HistoryRequests, f \in BOOLEAN, r \in HistoryReplies \cup {NoReply} :
             FetchHistoricalData(q[1], q[2], q[3], f, r)

Spec == Init /\ [][Next]_vars

---------------------------------------------------------------------------
(* The quota scenario: an upstream that always answers, a client that asks *)
(* for the daily gold series and for the spot quotes, over whole days.     *)

(* the number of calls a day the quota check lets through: 1.5 x 600 / 30 *)
DailyCeiling == (monthly_limit * 3) \div (days_in_month * 2)

KlineReply == Reply(FALSE, HttpOk, KlineDoc, CodeSuccess, "success")
GoldReply == Reply(FALSE, HttpOk, GoldDoc, CodeSuccess, "success")

NextDay ==
    /\ ticks < MaxQuotaDays
    /\ Advance(SecondsPerDay)

QuotaHistory ==
    /\ api_calls_today < DailyCeiling + MaxCallsToday
    /\ \E f \in BOOLEAN, r \in {KlineReply, NoReply} :
          FetchHistoricalData("XAU", "1", 30, f, r)

QuotaSpot ==
    \E x \in RateReplies \cup {NoReply}, r \in {GoldReply, NoReply} :
        GetCachedOrFreshData(FALSE, x, r)

QuotaNext == NextDay \/ QuotaHistory \/ QuotaSpot

SpecQuota == Init /\ [][QuotaNext]_vars

---------------------------------------------------------------------------
(* The polling scenario: a client that asks for the spot quotes once every *)
(* PollPeriod seconds, without force, within one 30-day month of the       *)
(* clock, and an upstream that always answers.  sent_this_month tallies    *)
(* the requests sent.                                                      *)

PollPeriod == 31 * SecondsPerMinute
MonthOf(t) == DateOf(t) \div days_in_month

PollWait ==
    /\ last.op # "tick"
    /\ MonthOf(now + PollPeriod) = MonthOf(now)
    /\ Advance(PollPeriod)

PollGet ==
    /\ last.op = "tick"
    /\ \E x \in RateReplies \cup {NoReply}, r \in {GoldReply, NoReply} :
          /\ GetStep(FALSE, x, r)
          /\ sent_this_month' = sent_this_month + last'.sent

PollNext == PollWait \/ PollGet

SpecPoll == Init /\ [][PollNext]_vars

---------------------------------------------------------------------------
(* CNBCFinancialScraper.get_instrument_data: the retry loop.  One step is  *)
(* one pass of the loop body: a request, its reply, and the return or the  *)
(* wait before the next pass.                                              *)

(* self.instruments: the keys, and the symbol of each *)
instruments == {".DXY", "US10Y", "US10YTIP", "VIX", "GLD"}

InstrumentSymbol(key) ==
    CASE key = ".DXY" -> "DXY"
      [] key = "US10Y" -> "US10Y"
      [] key = "US10YTIP" -> "TIPS"
      [] key = "VIX" -> "VIX"
      [] key = "GLD" -> "GLD"

PageDoc == "quote page"

PageReplies ==
    { Reply(TRUE, 0, NoneDoc, NoneInt, NoneStr),
      Reply(FALSE, 404, NoneDoc, NoneInt, NoneStr),
      Reply(FALSE, 500, NoneDoc, NoneInt, NoneStr),
      Reply(FALSE, 503, NoneDoc, NoneInt, NoneStr),
      Reply(FALSE, HttpOk, PageDoc, NoneInt, NoneStr) }

(* variant: a failed attempt is always followed by another one *)
get_instrument_data_keeps_trying(sc, reply) ==
    IF reply.raised \/ reply.status # HttpOk
    THEN [sc EXCEPT !.attempt = @ + 1, !.sent = @ + 1, !.replies = Append(@, reply)]
    ELSE [sc EXCEPT !.pc = "returned", !.sent = @ + 1, !.replies = Append(@, reply),
                    !.result = Quote(InstrumentSymbol(sc.key), sc.attempt)]

(* the body of the loop, pass number sc.attempt, the request answered by reply *)
get_instrument_data(sc, reply) ==
    IF reply.raised
    THEN IF sc.attempt < max_retries - 1
         THEN [sc EXCEPT !.attempt = @ + 1, !.sent = @ + 1, !.replies = Append(@, reply)]
         ELSE [sc EXCEPT !.pc = "returned", !.sent = @ + 1, !.replies = Append(@, reply),
                         !.result = NoQuote]
    ELSE IF reply.status # HttpOk
    THEN IF sc.attempt < max_retries - 1
         THEN [sc EXCEPT !.attempt = @ + 1, !.sent = @ + 1, !.replies = Append(@, reply)]
         ELSE [sc EXCEPT !.pc = "returned", !.sent = @ + 1, !.replies = Append(@, reply),
                         !.result = NoQuote]
    ELSE [sc EXCEPT !.pc = "returned", !.sent = @ + 1, !.replies = Append(@, reply),
                    !.result = Quote(InstrumentSymbol(sc.key), sc.attempt)]

scraper_unchanged ==
    UNCHANGED <<ticks, quota_vars, cache_vars, cached_price_usd, error_vars,
                usd_gbp_rate, callers, engine_vars, client_vars, sent_this_month, last>>

(* the call: for attempt in range(max_retries) starts at attempt 0 *)
GetInstrumentData(key) ==
    /\ scrape.pc = "idle"
    /\ scrape' = [NoScrape EXCEPT !.pc = "attempt", !.key = key]
    /\ UNCHANGED now
    /\ scraper_unchanged

(* one pass; time.sleep(2) when another pass follows.  The last pass       *)
(* returns whatever the reply, so the return after the loop (line 281) is  *)
(* never reached.                                                          *)
ScrapeAttempt(reply) ==
    /\ scrape.pc = "attempt"
    /\ scrape.attempt < max_retries
    /\ scrape' = get_instrument_data(scrape, reply)
    /\ now' = IF scrape'.pc = "attempt" THEN now + RetryWait ELSE now
    /\ scraper_unchanged

ScraperNext ==
    \/ \E key \in instruments : GetInstrumentData(key)
    \/ \E r \in PageReplies : ScrapeAttempt(r)

(* the thread that runs the loop keeps running, and every request ends:    *)
(* requests.get is given a timeout                                         *)
SpecScraper == Init /\ [][ScraperNext]_vars /\ WF_vars(ScraperNext)

---------------------------------------------------------------------------
(* The trading window over a week: the predictor is asked whether the      *)
(* market is open at the first and at the last minute of every hour of     *)
(* every day of the week.                                                  *)

WeekInstants ==
    { d * SecondsPerDay + h * SecondsPerHour + m * SecondsPerMinute :
          d \in 0..(DaysPerWeek - 1), h \in 0..23, m \in {0, 59} }

IsLondonTradingHours ==
    /\ last' = Done("is_london_trading_hours", FALSE, is_london_trading_hours(now),
                    NoneDoc, Msg("", 0, ""), FALSE, 0, NoReply, NoneInt, NoneInt, 0)
    /\ UNCHANGED <<now, ticks, quota_vars, cache_vars, cached_price_usd, error_vars,
                   usd_gbp_rate, callers, scrape, engine_vars, client_vars, sent_this_month>>

WeekInit ==
    /\ now \in WeekInstants
    /\ Constructed
    /\ historical_data = NoRecords
    /\ indicator_data = NoIndicators
    /\ args = NoArgs
    /\ gui = NoGui

WeekNext == IsLondonTradingHours

SpecWeek == WeekInit /\ [][WeekNext]_vars

---------------------------------------------------------------------------
(* Two threads in get_cached_or_fresh_data.  The method holds no lock, so  *)
(* the threads interleave between its statements: the reading of the       *)
(* clock, the decision, the two requests, the two assignments that store   *)
(* the entry, and the return.  Each caller makes one call.                 *)

SilverReply == Reply(FALSE, HttpOk, SilverDoc, NoneInt, NoneStr)
ThreadReplies == { Reply(FALSE, 500, NoneDoc, NoneInt, NoneStr), GoldReply, SilverReply }

ThreadStep(c, after) ==
    /\ callers' = [callers EXCEPT ![c] = after]
    /\ UNCHANGED <<now, ticks, quota_vars, cached_price_usd, scrape, engine_vars, client_vars,
                   sent_this_month, last>>

(* line 379: current_time = datetime.now() *)
ThreadCall(c, force_refresh) ==
    /\ callers[c].pc = "idle"
    /\ ThreadStep(c, [callers[c] EXCEPT !.pc = "decide", !.force = force_refresh,
                                        !.current_time = now])
    /\ UNCHANGED <<cache_vars, error_vars, usd_gbp_rate>>

(* lines 382-388: should_fetch *)
ThreadDecide(c) ==
    /\ callers[c].pc = "decide"
    /\ \E fetch \in { \/ callers[c].force
                      \/ last_fetch_time = NoneInt
                      \/ callers[c].current_time - last_fetch_time > StaleSeconds } :
          ThreadStep(c, [callers[c] EXCEPT !.should_fetch = fetch,
                                          !.pc = IF fetch THEN "rate" ELSE "serve"])
    /\ UNCHANGED <<cache_vars, error_vars, usd_gbp_rate>>

(* line 391: self.get_usd_gbp_rate() *)
ThreadRate(c, rate) ==
    /\ callers[c].pc = "rate"
    /\ usd_gbp_rate' = get_usd_gbp_rate(rate)
    /\ ThreadStep(c, [callers[c] EXCEPT !.pc = "fetch"])
    /\ UNCHANGED <<cache_vars, error_vars>>

(* lines 394-403: the fetch, and the return of its failure *)
ThreadFetch(c, reply) ==
    /\ callers[c].pc = "fetch"
    /\ \E f \in {fetch_gold_price_from_api(FALSE, reply)} :
          /\ (f.sent = 0) = (reply = NoReply)
          /\ last_error_code' = f.ecode
          /\ last_error_message' = f.emsg
          /\ ThreadStep(c, [callers[c] EXCEPT
                 !.success = f.success, !.data = f.data, !.message = f.message,
                 !.sent = f.sent,
                 !.pc = IF f.success /\ Truthy(f.data) THEN "store_data" ELSE "returned",
                 !.result = IF f.success /\ Truthy(f.data) THEN @
                            ELSE [ok |-> FALSE, data |-> NoneDoc, label |-> f.message]])
    /\ UNCHANGED <<cache_vars, usd_gbp_rate>>

(* line 397: self.cached_api_data = data *)
ThreadStoreData(c) ==
    /\ callers[c].pc = "store_data"
    /\ cached_api_data' = callers[c].data
    /\ ThreadStep(c, [callers[c] EXCEPT !.pc = "store_time"])
    /\ UNCHANGED <<last_fetch_time, error_vars, usd_gbp_rate>>

(* lines 398-400: self.last_fetch_time = current_time, and the return *)
ThreadStoreTime(c) ==
    /\ callers[c].pc = "store_time"
    /\ last_fetch_time' = callers[c].current_time
    /\ ThreadStep(c, [callers[c] EXCEPT
           !.pc = "returned",
           !.result = [ok |-> TRUE, data |-> callers[c].data,
                       label |-> Msg("LIVE London Gold Market", 0, "")]])
    /\ UNCHANGED <<cached_api_data, error_vars, usd_gbp_rate>>

(* lines 404-411: the cache entry, or "No data available" *)
ThreadServe(c) ==
    /\ callers[c].pc = "serve"
    /\ ThreadStep(c, [callers[c] EXCEPT
           !.pc = "returned",
           !.result =
               IF Truthy(cached_api_data)
               THEN [ok |-> TRUE, data |-> cached_api_data,
                     label |-> Msg("Cached",
                                   (callers[c].current_time - last_fetch_time)
                                       \div SecondsPerMinute,
                                   "min old")]
               ELSE [ok |-> FALSE, data |-> NoneDoc,
                     label |-> Msg("No data available", 0, "")]])
    /\ UNCHANGED <<cache_vars, error_vars, usd_gbp_rate>>

ThreadsNext ==
    \/ \E d \in TickSteps : Tick(d)
    \/ \E c \in Callers, f \in BOOLEAN : ThreadCall(c, f)
    \/ \E c \in Callers : ThreadDecide(c)
    \/ \E c \in Callers, x \in RateReplies : ThreadRate(c, x)
    \/ \E c \in Callers, r \in ThreadReplies \cup {NoReply} : ThreadFetch(c, r)
    \/ \E c \in Callers : ThreadStoreData(c)
    \/ \E c \in Callers : ThreadStoreTime(c)
    \/ \E c \in Callers : ThreadServe(c)

SpecThreads == Init /\ [][ThreadsNext]_vars

---------------------------------------------------------------------------
(* TechnicalIndicatorsEngine.  A price is a whole number of thousandths of *)
(* a dollar, a typical price (the sum of high, low and close, not yet      *)
(* divided by 3) a whole number of thirds of a thousandth, and a value     *)
(* rounded by round(x, 2) a whole number of hundredths.  unit is the       *)
(* number of units of the prices in a hundredth of a dollar.  Comparisons  *)
(* of quotients are made over the rationals, by cross-multiplication.      *)

PriceUnit == 10
TypicalUnit == 30

(* the nearest whole number to num / den, a half going to the even one *)
RoundHalfEven(num, den) ==
    IF 2 * (num % den) < den THEN num \div den
    ELSE IF 2 * (num % den) > den THEN (num \div den) + 1
    ELSE IF (num \div den) % 2 = 0 THEN num \div den
    ELSE (num \div den) + 1

(* <<q, r>> with num * 10^k = q * den + r and 0 <= r < den *)
RECURSIVE ScaledQuotient(_, _, _)
ScaledQuotient(num, den, k) ==
    IF k = 0 THEN <<num \div den, num % den>>
    ELSE \* one more decimal digit of the quotient
         LET digit(p) == <<p[1] * 10 + (p[2] * 10) \div den, (p[2] * 10) % den>>
         IN  digit(ScaledQuotient(num, den, k - 1))

(* round(num / den, k) in units of 10^-k *)
RoundScaled(num, den, k) ==
    LET nearest(p) ==
            IF 2 * p[2] < den THEN p[1]
            ELSE IF 2 * p[2] > den THEN p[1] + 1
            ELSE IF p[1] % 2 = 0 THEN p[1]
            ELSE p[1] + 1
    IN  nearest(ScaledQuotient(num, den, k))

(* sum(prices[lo..hi]) *)
RECURSIVE SumFrom(_, _, _)
SumFrom(prices, lo, hi) ==
    IF lo > hi THEN 0 ELSE prices[lo] + SumFrom(prices, lo + 1, hi)

(* sum(abs(price - centre) for price in prices[lo..hi]) *)
RECURSIVE SumAbs(_, _, _, _)
SumAbs(prices, lo, hi, centre) ==
    IF lo > hi THEN 0
    ELSE (IF prices[lo] >= centre THEN prices[lo] - centre ELSE centre - prices[lo])
         + SumAbs(prices, lo + 1, hi, centre)

(* variant: the window must be shorter than the series *)
calculate_sma_longer_series(prices, period, unit) ==
    IF Len(prices) <= period THEN <<>>
    ELSE [i \in 1..(Len(prices) - period + 1) |->
             RoundHalfEven(SumFrom(prices, i, i + period - 1), period * unit)]

(* calculate_sma: the rounded averages of the windows, in hundredths *)
calculate_sma(prices, period, unit) ==
    IF Len(prices) < period THEN <<>>
    ELSE [i \in 1..(Len(prices) - period + 1) |->
             RoundHalfEven(SumFrom(prices, i, i + period - 1), period * unit)]

(* calculate_cci: the rounded CCI of the windows, in hundredths.           *)
(*   cci = (tp - sma) / (0.015 * deviation / period)                       *)
(*       = (tp - sma) * period * 2 * 10^2 / (3 * deviation)                *)
calculate_cci(high_prices, low_prices, close_prices, period) ==
    IF Len(high_prices) < period THEN <<>>
    ELSE LET typical_prices ==
                 [i \in 1..Len(close_prices) |->
                     high_prices[i] + low_prices[i] + close_prices[i]]
             window(tp, sma_typical) ==
                 [i \in 1..Len(sma_typical) |->
                     LET cci(current_tp, current_sma, deviation) ==
                             IF deviation = 0 THEN 0
                             ELSE RoundScaled((current_tp - current_sma) * period * 2,
                                              3 * deviation, 4)
                     IN  cci(tp[i + period - 1], TypicalUnit * sma_typical[i],
                             SumAbs(tp, i, i + period - 1, TypicalUnit * sma_typical[i]))]
         IN  IF calculate_sma(typical_prices, period, TypicalUnit) = <<>> THEN <<>>
             ELSE window(typical_prices, calculate_sma(typical_prices, period, TypicalUnit))

categorize_cci(cci_value) ==
    IF cci_value > 200 * 100 THEN "Strong Sell"
    ELSE IF cci_value > 100 * 100 THEN "Sell"
    ELSE IF cci_value > -100 * 100 THEN "Neutral"
    ELSE IF cci_value > -200 * 100 THEN "Buy"
    ELSE "Strong Buy"

(* variant: a threshold reached is a threshold passed *)
categorize_ma_trend_at_threshold(current_price, ma_value) ==
    LET diff == current_price - PriceUnit * ma_value IN
    IF ma_value = 0 THEN "ZeroDivisionError"
    ELSE IF diff * 10 >= 5 * ma_value THEN "Strong Buy"
    ELSE IF diff * 10 >= 2 * ma_value THEN "Buy"
    ELSE IF diff * 10 >= -2 * ma_value THEN "Neutral"
    ELSE IF diff * 10 >= -5 * ma_value THEN "Sell"
    ELSE "Strong Sell"

(* categorize_ma_trend: price_diff_pct = (current_price - ma_value) /       *)
(* ma_value * 100 against 5, 2, -2, -5; ma_value is positive, or 0 and the *)
(* division raises                                                         *)
categorize_ma_trend(current_price, ma_value) ==
    LET diff == current_price - PriceUnit * ma_value IN
    IF ma_value = 0 THEN "ZeroDivisionError"
    ELSE IF diff * 10 > 5 * ma_value THEN "Strong Buy"
    ELSE IF diff * 10 > 2 * ma_value THEN "Buy"
    ELSE IF diff * 10 > -2 * ma_value THEN "Neutral"
    ELSE IF diff * 10 > -5 * ma_value THEN "Sell"
    ELSE "Strong Sell"

(* variant: the buckets end below 10 and below 20 *)
strong_threshold_below(fast_period) ==
    IF fast_period < 10 THEN 15 ELSE IF fast_period < 20 THEN 20 ELSE 10

(* the thresholds of categorize_ma_crossover, in tenths of a percent *)
strong_threshold(fast_period) ==
    IF fast_period <= 10 THEN 15 ELSE IF fast_period <= 20 THEN 20 ELSE 10

weak_threshold(fast_period) ==
    IF fast_period <= 10 THEN 5 ELSE IF fast_period <= 20 THEN 8 ELSE 3

(* categorize_ma_crossover: spread_pct = (ma_fast - ma_slow) / ma_slow * 100 *)
categorize_ma_crossover(ma_fast, ma_slow, fast_period, slow_period) ==
    LET spread == ma_fast - ma_slow IN
    IF ma_slow = 0 THEN "ZeroDivisionError"
    ELSE IF spread * 1000 > strong_threshold(fast_period) * ma_slow THEN "Strong Buy"
    ELSE IF spread * 1000 > weak_threshold(fast_period) * ma_slow THEN "Buy"
    ELSE IF spread * 1000 > -weak_threshold(fast_period) * ma_slow THEN "Neutral"
    ELSE IF spread * 1000 > -strong_threshold(fast_period) * ma_slow THEN "Sell"
    ELSE "Strong Sell"

(* calculate_weighted_sentiment: the weights, the scores, the two sums *)
WeightedNames ==
    {"CCI-20", "MA5", "MA20", "MA40", "MA60",
     "MA5-MA10", "MA10-MA20", "MA20-MA40", "MA20-MA60", "MA40-MA60"}

weights(indicator) ==
    CASE indicator = "CCI-20" -> 15
      [] indicator = "MA5" -> 2
      [] indicator = "MA20" -> 8
      [] indicator = "MA40" -> 10
      [] indicator = "MA60" -> 10
      [] indicator = "MA5-MA10" -> 8
      [] indicator = "MA10-MA20" -> 12
      [] indicator = "MA20-MA40" -> 20
      [] indicator = "MA20-MA60" -> 18
      [] indicator = "MA40-MA60" -> 5

(* scores.get(category, 0) *)
scores(category) ==
    CASE category = "Strong Buy" -> 2
      [] category = "Buy" -> 1
      [] category = "Neutral" -> 0
      [] category = "Sell" -> -1
      [] category = "Strong Sell" -> -2
      [] OTHER -> 0

(* indicator_tuple[0] if len(indicator_tuple) > 0 else "Neutral" *)
CategoryOf(indicator_tuple) ==
    IF Len(indicator_tuple) > 0 THEN indicator_tuple[1] ELSE "Neutral"

(* weighted_score and total_weight after the loop over the given indicators *)
RECURSIVE WeightedSums(_, _)
WeightedSums(data, names) ==
    IF names = {} THEN [weighted_score |-> 0, total_weight |-> 0]
    ELSE LET indicator == CHOOSE name \in names : TRUE
             add(rest) ==
                 [weighted_score |-> rest.weighted_score
                                       + scores(CategoryOf(data[indicator])) * weights(indicator),
                  total_weight |-> rest.total_weight + weights(indicator)]
         IN  add(WeightedSums(data, names \ {indicator}))

(* variant: the thresholds must be exceeded *)
sentiment_category_above(weighted_score, total_weight) ==
    IF weighted_score * 10 > 13 * total_weight THEN "Strong Buy"
    ELSE IF weighted_score * 10 > 4 * total_weight THEN "Buy"
    ELSE IF weighted_score * 10 > -4 * total_weight THEN "Neutral"
    ELSE IF weighted_score * 10 > -13 * total_weight THEN "Sell"
    ELSE "Strong Sell"

(* the category of weighted_score / total_weight against 1.3, 0.4, -0.4, -1.3 *)
sentiment_category(weighted_score, total_weight) ==
    IF weighted_score * 10 >= 13 * total_weight THEN "Strong Buy"
    ELSE IF weighted_score * 10 >= 4 * total_weight THEN "Buy"
    ELSE IF weighted_score * 10 >= -4 * total_weight THEN "Neutral"
    ELSE IF weighted_score * 10 >= -13 * total_weight THEN "Sell"
    ELSE "Strong Sell"

(* the category and the score weighted_score / total_weight, as num / den *)
calculate_weighted_sentiment(data) ==
    LET result(sums) ==
            IF sums.total_weight = 0
            THEN [category |-> "Neutral", num |-> 0, den |-> 1]
            ELSE [category |-> sentiment_category(sums.weighted_score, sums.total_weight),
                  num |-> sums.weighted_score, den |-> sums.total_weight]
    IN  result(WeightedSums(data, DOMAIN data \cap WeightedNames))

(* get_comprehensive_analysis, from the records of the historical data *)
ma_periods == {5, 20, 40, 60}

crossover_pairs ==
    { <<5, 10, "MA5-MA10">>, <<10, 20, "MA10-MA20">>, <<20, 40, "MA20-MA40">>,
      <<20, 60, "MA20-MA60">>, <<40, 60, "MA40-MA60">> }

MaName(period) == "MA" \o ToString(period)

(* prices in chronological order: the list reversed *)
Chronological(records, field) ==
    [i \in 1..Len(records) |-> records[Len(records) + 1 - i][field]]

Latest(values) == values[Len(values)]

(* indicator_data as built by lines 241-289 *)
BuildIndicators(high_prices, low_prices, close_prices) ==
    LET current_price == Latest(close_prices)
        cci_entry(cci_values) ==
            <<categorize_cci(Latest(cci_values)), Latest(cci_values)>>
        ma_entry(ma) ==
            <<categorize_ma_trend(current_price, Latest(ma)), Latest(ma),
              current_price - PriceUnit * Latest(ma)>>
        cross_entry(ma_fast, ma_slow, pair) ==
            <<categorize_ma_crossover(Latest(ma_fast), Latest(ma_slow), pair[1], pair[2]),
              Latest(ma_fast) - Latest(ma_slow),
              [num |-> (Latest(ma_fast) - Latest(ma_slow)) * 100, den |-> Latest(ma_slow)]>>
        present ==
            {name \in {"CCI-20"} : calculate_cci(high_prices, low_prices, close_prices, 20) # <<>>}
            \cup {MaName(period) : period \in
                     {q \in ma_periods : calculate_sma(close_prices, q, PriceUnit) # <<>>}}
            \cup {pair[3] : pair \in
                     {q \in crossover_pairs :
                         /\ calculate_sma(close_prices, q[1], PriceUnit) # <<>>
                         /\ calculate_sma(close_prices, q[2], PriceUnit) # <<>>}}
    IN  [name \in present |->
            IF name = "CCI-20"
            THEN cci_entry(calculate_cci(high_prices, low_prices, close_prices, 20))
            ELSE IF \E period \in ma_periods : name = MaName(period)
            THEN LET period == CHOOSE q \in ma_periods : name = MaName(q)
                 IN  ma_entry(calculate_sma(close_prices, period, PriceUnit))
            ELSE LET pair == CHOOSE q \in crossover_pairs : name = q[3]
                 IN  cross_entry(calculate_sma(close_prices, pair[1], PriceUnit),
                                 calculate_sma(close_prices, pair[2], PriceUnit), pair)]

(* the result of get_comprehensive_analysis(historical_data=...): the      *)
(* error of an empty list, the error of a division by zero caught by the   *)
(* outer except clause, or the table with the overall sentiment            *)
get_comprehensive_analysis(records) ==
    IF records = <<>>
    THEN [ok |-> FALSE, message |-> "No historical data available",
          indicators |-> NoIndicators,
          sentiment |-> [category |-> NoneStr, num |-> 0, den |-> 1]]
    ELSE LET finish(indicators) ==
                 IF \E name \in DOMAIN indicators : indicators[name][1] = "ZeroDivisionError"
                 THEN [ok |-> FALSE, message |-> "Analysis error",
                       indicators |-> NoIndicators,
                       sentiment |-> [category |-> NoneStr, num |-> 0, den |-> 1]]
                 ELSE [ok |-> TRUE, message |-> "",
                       indicators |-> indicators,
                       sentiment |-> calculate_weighted_sentiment(indicators)]
         IN  finish(BuildIndicators(Chronological(records, "maxprice"),
                                    Chronological(records, "minprice"),
                                    Chronological(records, "close")))

(* The record of a call of the engine *)
Analysed(op, period, ok, message, values, sentiment) ==
    [op |-> op, period |-> period, ok |-> ok, message |-> message, values |-> values,
     sentiment |-> sentiment]

engine_unchanged ==
    UNCHANGED <<now, ticks, quota_vars, cache_vars, cached_price_usd, error_vars,
                usd_gbp_rate, callers, scrape, client_vars, sent_this_month>>

GetComprehensiveAnalysis ==
    /\ \E a \in {get_comprehensive_analysis(historical_data)} :
          /\ indicator_data' = a.indicators
          /\ last' = Analysed("get_comprehensive_analysis", 0, a.ok, a.message, <<>>,
                              a.sentiment)
    /\ UNCHANGED historical_data
    /\ engine_unchanged

(* calculate_cci on the prices of the records, for a period of the caller's *)
CalculateCci(period) ==
    /\ last' = Analysed("calculate_cci", period, TRUE, "",
                        calculate_cci(Chronological(historical_data, "maxprice"),
                                      Chronological(historical_data, "minprice"),
                                      Chronological(historical_data, "close"), period),
                        [category |-> NoneStr, num |-> 0, den |-> 1])
    /\ UNCHANGED engine_vars
    /\ engine_unchanged

CalculateWeightedSentiment ==
    /\ last' = Analysed("calculate_weighted_sentiment", 0, TRUE, "", <<>>,
                        calculate_weighted_sentiment(indicator_data))
    /\ UNCHANGED engine_vars
    /\ engine_unchanged

(* The series analysed, newest record first: a flat one, a ramp with a     *)
(* high and a low around the close, and a flat one whose latest close has  *)
(* jumped.                                                                 *)
Bar(high, low, close) == [maxprice |-> high, minprice |-> low, close |-> close]

Flat(n, price) == [i \in 1..n |-> Bar(price, price, price)]

Ramp(n, first, step, spread) ==
    [i \in 1..n |-> Bar(first + (n - i) * step + spread,
                        first + (n - i) * step - spread,
                        first + (n - i) * step)]

Jump(n, price, latest) ==
    [i \in 1..n |-> IF i = 1 THEN Bar(latest, latest, latest) ELSE Bar(price, price, price)]

Series ==
    {Flat(n, price) : n \in 0..MaxLen, price \in {50120, 50123}}
    \cup {Ramp(n, 50000, step, 250) : n \in 0..MaxLen, step \in {40, -40}}
    \cup {Jump(n, 50000, latest) : n \in 0..MaxLen, latest \in {51256, 53000}}

CciPeriods == {1, 5, 14, 20}

EngineInit ==
    /\ now \in StartTimes
    /\ Constructed
    /\ historical_data \in Series
    /\ indicator_data = NoIndicators
    /\ args = NoArgs
    /\ gui = NoGui

EngineNext ==
    \/ GetComprehensiveAnalysis
    \/ \E period \in CciPeriods : CalculateCci(period)

SpecEngine == EngineInit /\ [][EngineNext]_vars

(* The indicator maps handed to calculate_weighted_sentiment: those with   *)
(* at most MaxIndicators indicators, and those with all the weighted       *)
(* indicators in one category but one.  "RSI-14" is an indicator without a *)
(* weight.                                                                 *)
Categories == {"Strong Buy", "Buy", "Neutral", "Sell", "Strong Sell"}

IndicatorNames == WeightedNames \cup {"RSI-14"}

IndicatorMaps ==
    UNION { [names -> {<<category>> : category \in Categories}] :
              names \in {chosen \in SUBSET IndicatorNames :
                            Cardinality(chosen) <= MaxIndicators} }
    \cup { [name \in WeightedNames |-> IF name = other THEN <<second>> ELSE <<first>>] :
              other \in WeightedNames, first \in Categories, second \in Categories }

SentimentInit ==
    /\ now \in StartTimes
    /\ Constructed
    /\ historical_data = NoRecords
    /\ indicator_data \in IndicatorMaps
    /\ args = NoArgs
    /\ gui = NoGui

SentimentNext == CalculateWeightedSentiment

SpecSentiment == SentimentInit /\ [][SentimentNext]_vars

(* The series that rise by one dollar a day over 60 days, from a start of *)
(* 1 to MaxStart dollars or of 50 to 50 * MaxStart dollars.                *)
RisingStarts == (1..MaxStart) \cup {50 * k : k \in 1..MaxStart}

Rising(start) == Ramp(60, 1000 * start, 1000, 0)

RisingInit ==
    /\ now \in StartTimes
    /\ Constructed
    /\ historical_data \in {Rising(start) : start \in RisingStarts}
    /\ indicator_data = NoIndicators
    /\ args = NoArgs
    /\ gui = NoGui

RisingNext == GetComprehensiveAnalysis

SpecRising == RisingInit /\ [][RisingNext]_vars

(* categorize_ma_crossover called on its own: a slow average of 100.00 and *)
(* a fast average up to MaxSpread hundredths away from it, which is the    *)
(* spread in hundredths of a percent, for fast periods on either side of   *)
(* the buckets' ends.                                                      *)
CrossoverPeriods == { <<5, 10>>, <<10, 20>>, <<11, 20>>, <<20, 40>>, <<21, 40>>, <<40, 60>> }

CrossoverCalls ==
    { [method |-> "categorize_ma_crossover", ma_fast |-> 10000 + spread, ma_slow |-> 10000,
       fast_period |-> periods[1], slow_period |-> periods[2]] :
          spread \in (-MaxSpread)..MaxSpread, periods \in CrossoverPeriods }

CategorizeMaCrossover ==
    /\ args.method = "categorize_ma_crossover"
    /\ last' = [op |-> "categorize_ma_crossover",
                category |-> categorize_ma_crossover(args.ma_fast, args.ma_slow,
                                                     args.fast_period, args.slow_period)]
    /\ UNCHANGED <<now, ticks, quota_vars, cache_vars, cached_price_usd, error_vars,
                   usd_gbp_rate, callers, scrape, engine_vars, client_vars, sent_this_month>>

CrossoverInit ==
    /\ now \in StartTimes
    /\ Constructed
    /\ historical_data = NoRecords
    /\ indicator_data = NoIndicators
    /\ args \in CrossoverCalls
    /\ gui = NoGui

CrossoverNext == CategorizeMaCrossover

SpecCrossover == CrossoverInit /\ [][CrossoverNext]_vars

---------------------------------------------------------------------------
(* CNBCFinancialScraper.calculate_gold_impact_score.  market_data maps the *)
(* symbols of some instruments to their change_percent (a text, a sequence *)
(* of characters, or None), weight and gold_impact.  A change is a whole   *)
(* number of hundredths of a percent, a weight a whole number of           *)
(* hundredths, a factor score their product, and a quotient is kept as     *)
(* num / den.                                                              *)

InstrumentSymbols == {InstrumentSymbol(key) : key \in instruments}

(* self.instruments[key]['weight'], by symbol, in hundredths *)
InstrumentWeight(symbol) ==
    CASE symbol = "DXY" -> 25
      [] symbol = "US10Y" -> 20
      [] symbol = "TIPS" -> 22
      [] symbol = "VIX" -> 18
      [] symbol = "GLD" -> 15

(* self.instruments[key]['gold_impact'], by symbol *)
InstrumentImpact(symbol) ==
    IF symbol \in {"DXY", "US10Y", "TIPS"} THEN "inverse" ELSE "positive"

NoneText == <<NoneStr>>

(* Python truthiness of a text: None and "" are falsy *)
TruthyText(text) == text # NoneText /\ text # <<>>

Digits == {"0", "1", "2", "3", "4", "5", "6", "7", "8", "9"}

DigitValue(ch) ==
    CASE ch = "0" -> 0 [] ch = "1" -> 1 [] ch = "2" -> 2 [] ch = "3" -> 3 [] ch = "4" -> 4
      [] ch = "5" -> 5 [] ch = "6" -> 6 [] ch = "7" -> 7 [] ch = "8" -> 8 [] ch = "9" -> 9

RECURSIVE IntOf(_)
IntOf(digits) ==
    IF digits = <<>> THEN 0
    ELSE IntOf(SubSeq(digits, 1, Len(digits) - 1)) * 10 + DigitValue(digits[Len(digits)])

(* text.replace('%', '').replace('+', '') *)
StripPercent(text) ==
    LET kept(ch) == ch \notin {"%", "+"} IN SelectSeq(text, kept)

(* float(text) for a decimal numeral with at most two decimals, in         *)
(* hundredths; ValueError for a text that is not a numeral                 *)
ParseFloat(text) ==
    LET negative == Len(text) > 0 /\ text[1] = "-"
        body == IF negative THEN SubSeq(text, 2, Len(text)) ELSE text
        points == {i \in 1..Len(body) : body[i] = "."}
        point == IF points = {} THEN Len(body) + 1 ELSE CHOOSE i \in points : TRUE
        whole == SubSeq(body, 1, point - 1)
        decimals == SubSeq(body, point + 1, Len(body))
        numeral ==
            /\ Cardinality(points) <= 1
            /\ \A i \in 1..Len(whole) : whole[i] \in Digits
            /\ \A i \in 1..Len(decimals) : decimals[i] \in Digits
            /\ Len(whole) + Len(decimals) > 0
            /\ Len(decimals) <= 2
        magnitude ==
            IntOf(whole) * 100
            + (IF Len(decimals) = 1 THEN IntOf(decimals) * 10 ELSE IntOf(decimals))
    IN  IF ~numeral THEN [ok |-> FALSE, value |-> 0]
        ELSE [ok |-> TRUE, value |-> IF negative THEN -magnitude ELSE magnitude]

(* variant: every factor pushes gold the way it moves *)
factor_score_same_way(change_pct, weight, impact) == change_pct * weight

(* lines 349-354: factor_score *)
factor_score(change_pct, weight, impact) ==
    IF impact = "inverse" THEN -change_pct * weight ELSE change_pct * weight

(* variant: the thresholds are part of BUY and SELL *)
recommendation_from_threshold(num, den) ==
    IF num * 10 >= 3 * den THEN "BUY" ELSE IF num * 10 <= -3 * den THEN "SELL" ELSE "HOLD"

(* line 376: the recommendation of the score num / den against 0.3 and -0.3 *)
recommendation(num, den) ==
    IF num * 10 > 3 * den THEN "BUY" ELSE IF num * 10 < -3 * den THEN "SELL" ELSE "HOLD"

Abs(x) == IF x < 0 THEN -x ELSE x

(* line 377: min(abs(normalized_score) * 100, 95) *)
confidence(num, den) ==
    IF Abs(num) * 100 < 95 * den THEN [num |-> Abs(num) * 100, den |-> den]
    ELSE [num |-> 95, den |-> 1]

(* lines 339-364: the factor score of each instrument counted, and the     *)
(* total weight; an instrument without change_percent, or with one that    *)
(* float() refuses, is skipped                                             *)
Counted(market_data) ==
    {symbol \in DOMAIN market_data :
        /\ TruthyText(market_data[symbol].change_percent)
        /\ ParseFloat(StripPercent(market_data[symbol].change_percent)).ok}

FactorScores(market_data) ==
    [symbol \in Counted(market_data) |->
        factor_score(ParseFloat(StripPercent(market_data[symbol].change_percent)).value,
                     market_data[symbol].weight, market_data[symbol].gold_impact)]

RECURSIVE SumOver(_, _)
SumOver(values, keys) ==
    IF keys = {} THEN 0
    ELSE LET key == CHOOSE k \in keys : TRUE
         IN  values[key] + SumOver(values, keys \ {key})

NoImpact ==
    [none |-> TRUE, factor_scores |-> <<>>, total_weight |-> 0,
     overall_score |-> [num |-> 0, den |-> 1], recommendation |-> NoneStr,
     confidence |-> [num |-> 0, den |-> 1]]

(* calculate_gold_impact_score: None for an empty map, else the result.    *)
(* total_score is in units of 10^-4 and total_weight in hundredths, so     *)
(* normalized_score = total_score / (100 * total_weight)                   *)
calculate_gold_impact_score(market_data) ==
    LET result(factor_scores, total_score, total_weight) ==
            LET num == IF total_weight > 0 THEN total_score ELSE 0
                den == IF total_weight > 0 THEN 100 * total_weight ELSE 1
            IN  [none |-> FALSE, factor_scores |-> factor_scores, total_weight |-> total_weight,
                 overall_score |-> [num |-> num, den |-> den],
                 recommendation |-> recommendation(num, den),
                 confidence |-> confidence(num, den)]
    IN  IF DOMAIN market_data = {} THEN NoImpact
        ELSE result(FactorScores(market_data),
                    SumOver(FactorScores(market_data), Counted(market_data)),
                    SumOver([symbol \in Counted(market_data) |-> market_data[symbol].weight],
                            Counted(market_data)))

client_unchanged ==
    UNCHANGED <<now, ticks, quota_vars, cache_vars, cached_price_usd, error_vars,
                usd_gbp_rate, callers, scrape, engine_vars, client_vars, sent_this_month>>

CalculateGoldImpactScore ==
    /\ args.method = "calculate_gold_impact_score"
    /\ last' = [op |-> "calculate_gold_impact_score",
                result |-> calculate_gold_impact_score(args.market_data)]
    /\ client_unchanged

(* The maps scored: at most MaxInstruments of the five instruments, each   *)
(* with the weight and the impact of self.instruments and a change_percent *)
(* as _extract_price_data leaves it: None, or a signed numeral and "%".    *)
ChangeTexts ==
    { NoneText,
      <<"+", "1", ".", "0", "0", "%">>, <<"-", "1", ".", "0", "0", "%">>,
      <<"+", "0", ".", "3", "0", "%">>, <<"-", "0", ".", "3", "0", "%">>,
      <<"+", "0", ".", "3", "1", "%">>, <<"-", "0", ".", "9", "5", "%">>,
      <<"+", "2", ".", "5", "%">>, <<"0", "%">> }

MarketMaps ==
    UNION { [symbols -> ChangeTexts] :
              symbols \in {chosen \in SUBSET InstrumentSymbols :
                              Cardinality(chosen) <= MaxInstruments} }

MarketData(changes) ==
    [symbol \in DOMAIN changes |->
        [change_percent |-> changes[symbol], weight |-> InstrumentWeight(symbol),
         gold_impact |-> InstrumentImpact(symbol)]]

ImpactInit ==
    /\ now \in StartTimes
    /\ Constructed
    /\ historical_data = NoRecords
    /\ indicator_data = NoIndicators
    /\ args \in {[method |-> "calculate_gold_impact_score", market_data |-> MarketData(m)] :
                    m \in MarketMaps}
    /\ gui = NoGui

ImpactNext == CalculateGoldImpactScore

SpecImpact == ImpactInit /\ [][ImpactNext]_vars

---------------------------------------------------------------------------
(* The error slot read back: get_last_error_info after fetches of both     *)
(* kinds, the upstream answering with known, unknown and zero error codes. *)

NoErrorInfo == [error_code |-> NoneInt, description |-> NoneStr, message |-> NoneStr]

(* get_last_error_info: `if self.last_error_code:` is false for None and   *)
(* for the code 0                                                          *)
get_last_error_info ==
    IF last_error_code # NoneInt /\ last_error_code # 0
    THEN [error_code |-> last_error_code,
          description |-> get_error_description(last_error_code),
          message |-> last_error_message]
    ELSE NoErrorInfo

GetLastErrorInfo ==
    /\ last' = [op |-> "get_last_error_info", info |-> get_last_error_info,
                sent |-> 0, reply |-> NoReply]
    /\ UNCHANGED <<now, ticks, quota_vars, cache_vars, cached_price_usd, error_vars,
                   sent_this_month, usd_gbp_rate, callers, scrape, engine_vars, client_vars>>

ZeroCodeReply == Reply(FALSE, HttpOk, ErrorDoc, 0, "failed")

ErrorReplies ==
    { Reply(TRUE, 0, NoneDoc, NoneInt, NoneStr),
      Reply(FALSE, 500, NoneDoc, NoneInt, NoneStr),
      Reply(FALSE, HttpOk, ErrorDoc, 10007, "limit reached"),
      Reply(FALSE, HttpOk, ErrorDoc, 10009, "try later"),
      ZeroCodeReply }

ErrorsNext ==
    \/ \E d \in TickSteps : Tick(d)
    \/ \E f \in BOOLEAN, x \in {RateReply, NoReply},
          r \in ErrorReplies \cup {GoldReply, NoReply} : GetCachedOrFreshData(f, x, r)
    \/ \E f \in BOOLEAN, r \in ErrorReplies \cup {GoldReply, NoReply} :
          FetchGoldPriceFromApi(f, r)
    \/ /\ api_calls_today < MaxCallsToday
       /\ \E r \in ErrorReplies \cup {KlineReply} : FetchHistoricalData("XAU", "1", 30, FALSE, r)
    \/ GetLastErrorInfo

SpecErrors == Init /\ [][ErrorsNext]_vars

---------------------------------------------------------------------------
(* GoldPredictorGUI and GoldDataWorker.  The main thread runs the slots    *)
(* (refresh_data on a timer tick or a click, update_display, handle_error, *)
(* the finished slot) one at a time, in the order the signals were queued; *)
(* the worker thread runs GoldDataWorker.run.  Both call the one predictor: *)
(* the worker is the caller WorkerThread of get_cached_or_fresh_data, the  *)
(* main thread the caller MainThread.                                      *)

WorkerThread == "caller1"
MainThread == "caller2"

(* the number of workers the window starts in a run of the model *)
MaxWorkers == 2

(* get_market_factors and get_prediction_signals (gold_gui.py lines 59 and *)
(* 62) are not methods of the GoldPricePredictor of this source: the call  *)
(* raises AttributeError there, and returns where the predictor has them.  *)
get_market_factors == {"raised", "returned"}

(* the window after __init__: setup_timer has started the first worker *)
FirstLoad ==
    [window |-> TRUE, running |-> TRUE, force |-> FALSE, fetch_historical |-> TRUE,
     pc |-> "price", button |-> FALSE, queue |-> <<>>, main |-> "idle",
     initial_load_complete |-> FALSE, started |-> 1, refresh |-> "started",
     cycle_sent |-> 0]

(* refresh_data: nothing while the worker is running; else the button is   *)
(* disabled and a new worker started                                       *)
refresh_data(force_refresh) ==
    IF gui.running
    THEN [gui EXCEPT !.refresh = "refused"]
    ELSE [gui EXCEPT !.running = TRUE, !.force = force_refresh,
                     !.fetch_historical = ~gui.initial_load_complete,
                     !.pc = "price", !.button = FALSE, !.started = @ + 1,
                     !.refresh = "started", !.cycle_sent = 0]

gui_only ==
    UNCHANGED <<now, ticks, quota_vars, cache_vars, cached_price_usd, error_vars,
                usd_gbp_rate, callers, scrape, engine_vars, args, sent_this_month, last>>

RefreshData(force_refresh) ==
    /\ gui.main = "idle"
    /\ gui.running \/ gui.started < MaxWorkers
    /\ gui' = refresh_data(force_refresh)
    /\ gui_only

(* the timer's timeout: refresh_data() *)
TimerTick ==
    /\ gui.window
    /\ RefreshData(FALSE)

(* a click on the enabled button: manual_refresh, refresh_data(True) *)
ManualRefresh ==
    /\ gui.button
    /\ RefreshData(TRUE)

(* run, lines 50 and 53: the worker enters get_cached_or_fresh_data *)
WorkerCall ==
    /\ gui.running
    /\ gui.pc \in {"price", "info"}
    /\ ThreadCall(WorkerThread, gui.force)

(* lines 417-442 of get_current_gold_price, after get_cached_or_fresh_data *)
(* has returned: the price is remembered                                   *)
WorkerAfterPrice ==
    /\ gui.pc = "price"
    /\ callers[WorkerThread].pc = "returned"
    /\ \E r \in {callers[WorkerThread].result} :
          cached_price_usd' =
              IF r.ok /\ Truthy(r.data) /\ HasList(r.data) /\ LondonGoldPrice(r.data) # NoneInt
              THEN LondonGoldPrice(r.data)
              ELSE cached_price_usd
    /\ gui' = [gui EXCEPT !.pc = "info", !.cycle_sent = @ + callers[WorkerThread].sent]
    /\ callers' = [callers EXCEPT ![WorkerThread] = IdleCaller]
    /\ UNCHANGED <<now, ticks, quota_vars, cache_vars, error_vars, usd_gbp_rate, scrape,
                   engine_vars, args, sent_this_month, last>>

(* get_detailed_market_info has returned *)
WorkerAfterInfo ==
    /\ gui.pc = "info"
    /\ callers[WorkerThread].pc = "returned"
    /\ gui' = [gui EXCEPT !.pc = "factors", !.cycle_sent = @ + callers[WorkerThread].sent]
    /\ callers' = [callers EXCEPT ![WorkerThread] = IdleCaller]
    /\ UNCHANGED <<now, ticks, quota_vars, cache_vars, cached_price_usd, error_vars,
                   usd_gbp_rate, scrape, engine_vars, args, sent_this_month, last>>

(* lines 56-62, and line 96 when they raise: error_occurred is emitted *)
WorkerFactors ==
    /\ gui.pc = "factors"
    /\ \E outcome \in get_market_factors :
          gui' = IF outcome = "raised"
                 THEN [gui EXCEPT !.pc = "exit", !.queue = Append(@, "error_occurred")]
                 ELSE [gui EXCEPT !.pc = IF gui.fetch_historical THEN "history" ELSE "emit"]
    /\ gui_only

(* lines 66-79: the daily series, on the first load *)
WorkerHistory(reply) ==
    /\ gui.pc = "history"
    /\ \E f \in {fetch_historical_data("XAU", "1", 30, gui.force, reply)} :
          /\ (f.sent = 0) = (reply = NoReply)
          /\ api_calls_today' = f.today
          /\ last_call_date' = f.date
          /\ last_error_code' = f.ecode
          /\ last_error_message' = f.emsg
    /\ gui' = [gui EXCEPT !.pc = "emit"]
    /\ UNCHANGED <<now, ticks, calls_this_month, cache_vars, cached_price_usd, usd_gbp_rate,
                   callers, scrape, engine_vars, args, sent_this_month, last>>

(* lines 81-93: data_updated is emitted *)
WorkerEmit ==
    /\ gui.pc = "emit"
    /\ gui' = [gui EXCEPT !.pc = "exit", !.queue = Append(@, "data_updated")]
    /\ gui_only

(* run has returned: the thread stops running and finished is emitted *)
WorkerExit ==
    /\ gui.pc = "exit"
    /\ gui' = [gui EXCEPT !.pc = "done", !.running = FALSE, !.queue = Append(@, "finished")]
    /\ gui_only

(* the slot of error_occurred: handle_error reads the error slot only *)
HandleError ==
    /\ gui.main = "idle"
    /\ gui.queue # <<>> /\ Head(gui.queue) = "error_occurred"
    /\ gui' = [gui EXCEPT !.queue = Tail(@)]
    /\ gui_only

(* the slot of finished: the button is enabled again *)
HandleFinished ==
    /\ gui.main = "idle"
    /\ gui.queue # <<>> /\ Head(gui.queue) = "finished"
    /\ gui' = [gui EXCEPT !.queue = Tail(@), !.button = TRUE]
    /\ gui_only

(* the slot of data_updated: update_display up to line 955, where the main *)
(* thread enters get_cached_or_fresh_data through get_raw_api_response()   *)
UpdateDisplay ==
    /\ gui.main = "idle"
    /\ gui.queue # <<>> /\ Head(gui.queue) = "data_updated"
    /\ callers[MainThread].pc = "idle"
    /\ gui' = [gui EXCEPT !.queue = Tail(@), !.main = "update_display"]
    /\ callers' = [callers EXCEPT ![MainThread] =
                      [IdleCaller EXCEPT !.pc = "decide", !.current_time = now]]
    /\ UNCHANGED <<now, ticks, quota_vars, cache_vars, cached_price_usd, error_vars,
                   usd_gbp_rate, scrape, engine_vars, args, sent_this_month, last>>

(* lines 956-971: get_raw_api_response has returned, the first load is complete *)
UpdateDisplayDone ==
    /\ gui.main = "update_display"
    /\ callers[MainThread].pc = "returned"
    /\ gui' = [gui EXCEPT !.main = "idle", !.initial_load_complete = TRUE]
    /\ callers' = [callers EXCEPT ![MainThread] = IdleCaller]
    /\ UNCHANGED <<now, ticks, quota_vars, cache_vars, cached_price_usd, error_vars,
                   usd_gbp_rate, scrape, engine_vars, args, sent_this_month, last>>

GuiReplies == { Reply(FALSE, 500, NoneDoc, NoneInt, NoneStr), GoldReply }

GuiInit ==
    /\ now \in StartTimes
    /\ Constructed
    /\ historical_data = NoRecords
    /\ indicator_data = NoIndicators
    /\ args = NoArgs
    /\ gui = FirstLoad

GuiNext ==
    \/ TimerTick
    \/ ManualRefresh
    \/ WorkerCall
    \/ \E c \in Callers : ThreadDecide(c)
    \/ \E c \in Callers : ThreadRate(c, RateReply)
    \/ \E c \in Callers, r \in GuiReplies : ThreadFetch(c, r)
    \/ \E c \in Callers : ThreadStoreData(c)
    \/ \E c \in Callers : ThreadStoreTime(c)
    \/ \E c \in Callers : ThreadServe(c)
    \/ WorkerAfterPrice
    \/ WorkerAfterInfo
    \/ WorkerFactors
    \/ WorkerHistory(KlineReply)
    \/ WorkerEmit
    \/ WorkerExit
    \/ HandleError
    \/ HandleFinished
    \/ UpdateDisplay
    \/ UpdateDisplayDone

SpecGui == GuiInit /\ [][GuiNext]_vars

---------------------------------------------------------------------------
(* Properties *)

CacheAccessors ==
    {"get_cached_or_fresh_data", "get_current_gold_price",
     "get_detailed_market_info", "get_raw_api_response"}

FetchOps ==
    {"get_cached_or_fresh_data", "fetch_gold_price_from_api", "fetch_historical_data"}

(* the calls counted for the current date *)
CallsToday == IF last_call_date = DateOf(now) THEN api_calls_today ELSE 0

TransportFailure(reply) == reply.raised \/ reply.status # 200

(* C1: get_cached_or_fresh_data decides to fetch (calls the fetch method)  *)
(* exactly when force is set, or there was no successful fetch, or more    *)
(* than 1800 s have passed since the last one; otherwise it returns the    *)
(* stored payload unchanged, ok, labelled "Cached" with its age in whole   *)
(* minutes, and sends nothing.                                             *)
C1_FetchDecision ==
    [][ last'.op = "get_cached_or_fresh_data" =>
          /\ last'.attempted =
                (last'.force \/ last_fetch_time = NoneInt \/ now - last_fetch_time > 1800)
          /\ ~last'.attempted =>
                /\ last'.ok
                /\ last'.data = cached_api_data
                /\ last'.sent = 0
                /\ UNCHANGED cache_vars
                /\ last'.label.kind = "Cached"
                /\ last'.label.n * 60 <= now - last_fetch_time
                /\ now - last_fetch_time < (last'.label.n + 1) * 60 ]_vars

(* a query 29 minutes after the fetch is served from the cache, age 29 *)
C1_Witness ==
    /\ last.op = "get_cached_or_fresh_data"
    /\ ~last.force /\ ~last.attempted /\ last.ok
    /\ last.label = Msg("Cached", 29, "min old")
    /\ last.age = 29 * 60

(* C2 as stated: no accessor of the cache, called without force, returns   *)
(* previously fetched data older than 1800 s.                              *)
C2_NeverServesStale ==
    (last.op \in CacheAccessors /\ ~last.force /\ last.label.kind = "Cached")
        => last.age <= 1800

(* C2 amended: get_cached_or_fresh_data, get_detailed_market_info and      *)
(* get_raw_api_response return only the cache entry, and only while it is  *)
(* at most 1800 s old (get_current_gold_price is the accessor that can     *)
(* return an older, remembered price).                                     *)
C2_StaleOnlyFromRememberedPrice ==
    (last.op \in CacheAccessors \ {"get_current_gold_price"} /\ last.ok)
        => /\ last.data = cached_api_data
           /\ last_fetch_time # NoneInt
           /\ now - last_fetch_time <= 1800
           /\ last.sent = 0 => (last.age # NoneInt /\ last.age <= 1800)

(* the cache entry is served at the very ceiling, 1800 s old *)
C2_Witness ==
    /\ last.op = "get_raw_api_response"
    /\ last.ok /\ ~last.attempted
    /\ last.age = 1800

(* C3: a non-forced fetch sends a request only if the day's calls plus one *)
(* stay within 1.5 x monthly_limit / days_in_month = 30.                   *)
C3_QuotaBeforeEveryFetch ==
    [][ (last'.op \in FetchOps /\ ~last'.force /\ last'.sent = 1)
           => (CallsToday + 1) * 30 * 2 <= 600 * 3 ]_vars

(* C4: a forced fetch is never refused by the quota check, and a forced    *)
(* request is counted: calls_today and calls_this_month go up by one.      *)
C4_ForcedFetchCounted ==
    [][ (last'.op \in FetchOps /\ last'.force)
           => /\ last'.label.kind # "Quota check failed"
              /\ last'.sent = 1 =>
                    /\ api_calls_today' = CallsToday + 1
                    /\ calls_this_month' = calls_this_month + 1 ]_vars

(* C5: every request sent to the rate-limited API adds one to calls_today  *)
(* (after the daily reset) and one to calls_this_month, and nothing else   *)
(* changes the counters.                                                   *)
C5_EveryRequestCounted ==
    [][ /\ last'.sent = 1 =>
              /\ api_calls_today' = CallsToday + 1
              /\ calls_this_month' = calls_this_month + 1
        /\ last'.sent = 0 =>
              /\ api_calls_today' \in {api_calls_today, CallsToday}
              /\ calls_this_month' = calls_this_month ]_vars

(* C6: a quota refusal rests on calls made on the current date only.       *)
C6_RefusalCountsTodayOnly ==
    (last.op = "fetch_historical_data" /\ last.label.kind = "Quota check failed")
        => last_call_date = DateOf(now)

(* C7: non-forced fetches send at most monthly_limit requests in a month.  *)
C7_MonthlyBudget == sent_this_month <= 600

(* C8 as stated: after a request answered with status 200 and no error     *)
(* code, get_cached_or_fresh_data has stored the payload and the instant,  *)
(* cleared the error slot and returned ok, the payload and the LIVE label. *)
C8_Stored ==
    /\ last.ok
    /\ last.data = last.reply.doc
    /\ last.label.kind = "LIVE London Gold Market"
    /\ cached_api_data = last.reply.doc
    /\ last_fetch_time = now
    /\ last_error_code = NoneInt
    /\ last_error_message = NoneStr

C8_StructuralSuccessStored ==
    (/\ last.op = "get_cached_or_fresh_data"
     /\ last.sent = 1
     /\ ~TransportFailure(last.reply)
     /\ last.reply.code \in {NoneInt, 1})
        => C8_Stored

(* C8 amended: the same, for a reply whose body is not the empty document. *)
C8_NonEmptySuccessStored ==
    (/\ last.op = "get_cached_or_fresh_data"
     /\ last.sent = 1
     /\ ~TransportFailure(last.reply)
     /\ last.reply.code \in {NoneInt, 1}
     /\ last.reply.doc # "{}")
        => C8_Stored

(* a forced refresh replaced the entry by a body that has no code member *)
C8_Witness ==
    /\ last.op = "get_cached_or_fresh_data"
    /\ last.force /\ last.sent = 1 /\ last.ok
    /\ last.reply.code = NoneInt
    /\ last.age # NoneInt
    /\ cached_api_data = SilverDoc

(* the description the table gives, the generic one for a code outside it *)
C9_TableOrGeneric(reply) ==
    IF reply.code \in 10001..10008 THEN error_codes(reply.code)
    ELSE "Unknown error code: " \o ToString(reply.code)

(* the description the table gives, the upstream message for a code        *)
(* outside it ("Unknown error" when the body has none)                     *)
C9_TableOrUpstream(reply) ==
    IF reply.code \in 10001..10008 THEN error_codes(reply.code)
    ELSE IF reply.msg = NoneStr THEN "Unknown error" ELSE reply.msg

C9_ErrorStored(reply) ==
    /\ last_error_code' = reply.code
    /\ last_error_message' = (IF reply.msg = NoneStr THEN "Unknown error" ELSE reply.msg)
    /\ UNCHANGED cache_vars
    /\ ~last'.ok
    /\ last'.data = NoneDoc
    /\ last'.label.kind = "API Error"
    /\ last'.label.n = reply.code

C9_ApplicationError ==
    /\ last'.op \in FetchOps
    /\ last'.sent = 1
    /\ ~TransportFailure(last'.reply)
    /\ last'.reply.code \notin {NoneInt, 1}

(* C9 as stated: an embedded error code is stored with its message, the    *)
(* cache is untouched, and the failure carries the table's description,    *)
(* or "Unknown error code: N" for a code outside the table.                *)
C9_GenericForUnknownCode ==
    [][ C9_ApplicationError =>
          /\ C9_ErrorStored(last'.reply)
          /\ last'.label.text = C9_TableOrGeneric(last'.reply) ]_vars

(* C9 amended: for a code outside the table the failure carries the        *)
(* upstream message ("Unknown error" when there is none).                  *)
C9_UpstreamMessageForUnknownCode ==
    [][ C9_ApplicationError =>
          /\ C9_ErrorStored(last'.reply)
          /\ last'.label.text = C9_TableOrUpstream(last'.reply) ]_vars

(* an unknown code answered a fetch made over a filled cache *)
C9_Witness ==
    /\ last.op = "get_cached_or_fresh_data"
    /\ last.sent = 1
    /\ last.reply.code = 10009
    /\ last_error_code = 10009
    /\ last.label = Msg("API Error", 10009, "try later")
    /\ cached_api_data # NoneDoc

(* C10: a transport failure (exception or non-200 status) leaves the error *)
(* slot and the cache as they were, and the fetch returns failure.         *)
C10_TransportFailureChangesNothing ==
    [][ (last'.sent = 1 /\ TransportFailure(last'.reply)) =>
          /\ UNCHANGED error_vars
          /\ UNCHANGED cache_vars
          /\ last'.op \in FetchOps => (~last'.ok /\ last'.data = NoneDoc) ]_vars

(* a non-200 status answered a fetch made with an error and an entry stored *)
C10_Witness ==
    /\ last.op = "get_cached_or_fresh_data"
    /\ last.sent = 1
    /\ last.reply.status = 500
    /\ ~last.ok
    /\ last_error_code # NoneInt
    /\ cached_api_data # NoneDoc

(* C11: a fetch of get_cached_or_fresh_data that fails in transport        *)
(* (exception or non-200 status) returns the stored cache entry when there *)
(* is one, and reports "No data available" only when there is none.        *)
C11_TransportFailureRecovered ==
    (/\ last.op = "get_cached_or_fresh_data"
     /\ last.sent = 1
     /\ TransportFailure(last.reply))
        => IF cached_api_data \notin {NoneDoc, "{}"}
           THEN last.ok /\ last.data = cached_api_data
           ELSE ~last.ok /\ last.label.kind = "No data available"

(* C12 as stated: a call that decides to fetch makes exactly one external  *)
(* request, a call that serves the cache makes none.                       *)
C12_OneExternalCallPerFetch ==
    last.op \in CacheAccessors
        => last.external = (IF last.attempted THEN 1 ELSE 0)

(* C12 amended: a call that decides to fetch asks the exchange-rate        *)
(* service once and the quote service at most once, never twice: once      *)
(* while the market is open, not at all while it is closed; a call that    *)
(* serves the cache makes no external request.                             *)
C12_OneRateCallAndAtMostOneQuoteCall ==
    last.op \in CacheAccessors
        => /\ last.attempted =>
                 /\ last.sent = (IF is_london_trading_hours(now) THEN 1 ELSE 0)
                 /\ last.external = 1 + last.sent
           /\ ~last.attempted =>
                 /\ last.sent = 0
                 /\ last.external = 0

(* a fetch whose quote request failed: two external requests, no more *)
C12_Witness ==
    /\ last.op = "get_cached_or_fresh_data"
    /\ last.attempted /\ last.sent = 1 /\ ~last.ok
    /\ last.reply.status = 500
    /\ last.external = 2
    /\ usd_gbp_rate = 80

(* C15: without force, a fetch made while the market is closed sends no    *)
(* request and fails with "Outside trading hours"; a forced refresh        *)
(* through get_cached_or_fresh_data or get_current_gold_price always sends *)
(* the request.                                                            *)
C15_GateOnlyWithoutForce ==
    /\ (/\ last.op \in {"get_cached_or_fresh_data", "fetch_gold_price_from_api"}
        /\ ~last.force /\ last.attempted
        /\ ~is_london_trading_hours(now))
           => /\ last.sent = 0
              /\ ~last.ok
              /\ last.label.kind = "Outside trading hours"
    /\ (/\ last.op \in {"get_cached_or_fresh_data", "get_current_gold_price"}
        /\ last.force)
           => last.sent = 1

(* C13: get_cached_or_fresh_data is one critical section.  Of two callers  *)
(* inside it at once at most one has sent an upstream request, and once    *)
(* the stores are done the stored payload and the stored instant are those *)
(* of one and the same call.                                               *)
C13_Inside(c) == callers[c].pc \notin {"idle", "returned"}

C13_SingleFetch ==
    \A a, b \in Callers :
        (a # b /\ C13_Inside(a) /\ C13_Inside(b))
            => callers[a].sent + callers[b].sent <= 1

C13_WholeWrite ==
    (\A c \in Callers : callers[c].pc # "store_time")
        => \/ cached_api_data = NoneDoc /\ last_fetch_time = NoneInt
           \/ \E c \in Callers :
                 /\ callers[c].pc = "returned"
                 /\ callers[c].result.ok
                 /\ callers[c].should_fetch
                 /\ cached_api_data = callers[c].data
                 /\ last_fetch_time = callers[c].current_time

C13_OneCriticalSection == C13_SingleFetch /\ C13_WholeWrite

(* C14: is_london_trading_hours answers closed on Saturday (day 5 of the   *)
(* week that starts on Monday, day 0) at any hour, closed on Sunday (day   *)
(* 6) before 22:00 and open from 22:00, open on Friday (day 4) before      *)
(* 22:00 and closed from 22:00, and open at every hour of Monday to        *)
(* Thursday.                                                               *)
C14_Day == (now \div 86400) % 7
C14_Minute == (now % 86400) \div 60

C14_TradingWindow ==
    last.op = "is_london_trading_hours"
        => /\ C14_Day = 5 => ~last.ok
           /\ C14_Day = 6 => (last.ok = (C14_Minute >= 22 * 60))
           /\ C14_Day = 4 => (last.ok = (C14_Minute < 22 * 60))
           /\ C14_Day \in 0..3 => last.ok
           /\ (C14_Day = 5 /\ C14_Minute = 12 * 60) => ~last.ok
           /\ (C14_Day = 6 /\ C14_Minute = 21 * 60 + 59) => ~last.ok
           /\ (C14_Day = 6 /\ C14_Minute = 22 * 60) => last.ok
           /\ (C14_Day = 4 /\ C14_Minute = 21 * 60 + 59) => last.ok
           /\ (C14_Day = 4 /\ C14_Minute = 22 * 60) => ~last.ok
           /\ (C14_Day = 1 /\ C14_Minute = 3 * 60) => last.ok

(* asked on Sunday at 22:00, the market is open *)
C14_Witness ==
    /\ last.op = "is_london_trading_hours"
    /\ C14_Day = 6 /\ C14_Minute = 22 * 60
    /\ last.ok

(* C16: get_instrument_data sends at most 2 requests and returns: the      *)
(* quote built from the first attempt answered with status 200, or None    *)
(* after a second failed attempt (non-200 status or exception); it never   *)
(* ends in an exception, and every call returns.                           *)
C16_Failed(reply) == reply.raised \/ reply.status # 200

C16_AtMostTwoAttempts ==
    /\ scrape.pc \in {"idle", "attempt", "returned"}
    /\ scrape.sent = Len(scrape.replies)
    /\ scrape.sent <= 2
    /\ scrape.pc = "attempt" =>
          /\ scrape.sent < 2
          /\ \A i \in 1..scrape.sent : C16_Failed(scrape.replies[i])
    /\ scrape.pc = "returned" =>
          /\ scrape.sent >= 1
          /\ \A i \in 1..(scrape.sent - 1) : C16_Failed(scrape.replies[i])
          /\ IF C16_Failed(scrape.replies[scrape.sent])
             THEN scrape.sent = 2 /\ scrape.result = NoQuote
             ELSE /\ scrape.result # NoQuote
                  /\ scrape.result.attempt = scrape.sent - 1
                  /\ scrape.result.symbol = InstrumentSymbol(scrape.key)

C16_RetryTerminates ==
    /\ []C16_AtMostTwoAttempts
    /\ <>(scrape.pc = "returned")

(* the first request timed out, the second was answered: the quote of the  *)
(* second attempt                                                          *)
C16_Witness ==
    /\ scrape.pc = "returned"
    /\ scrape.sent = 2
    /\ scrape.replies[1].raised
    /\ scrape.replies[2].status = 200
    /\ scrape.result = Quote("DXY", 1)

---------------------------------------------------------------------------
(* C17: for a series of n >= 1 records, the indicator map built by         *)
(* get_comprehensive_analysis holds exactly the indicators whose window    *)
(* fits in n: MAp for p in {5, 20, 40, 60} iff n >= p, CCI-20 iff n >= 20, *)
(* each crossover pair iff n >= its slow period; the others are absent,    *)
(* and the analysis succeeds all the same.                                 *)
C17_Fits(n) ==
    {MaName(p) : p \in {q \in {5, 20, 40, 60} : n >= q}}
    \cup (IF n >= 20 THEN {"CCI-20"} ELSE {})
    \cup (IF n >= 10 THEN {"MA5-MA10"} ELSE {})
    \cup (IF n >= 20 THEN {"MA10-MA20"} ELSE {})
    \cup (IF n >= 40 THEN {"MA20-MA40"} ELSE {})
    \cup (IF n >= 60 THEN {"MA20-MA60", "MA40-MA60"} ELSE {})

C17_ExactlyTheFittingIndicators ==
    (last.op = "get_comprehensive_analysis" /\ Len(historical_data) >= 1)
        => /\ last.ok
           /\ DOMAIN indicator_data = C17_Fits(Len(historical_data))

C17_Witness ==
    /\ last.op = "get_comprehensive_analysis"
    /\ Len(historical_data) = 39
    /\ last.ok
    /\ {"MA5", "MA20", "CCI-20", "MA5-MA10", "MA10-MA20"} \subseteq DOMAIN indicator_data
    /\ {"MA40", "MA60", "MA20-MA40", "MA20-MA60", "MA40-MA60"} \cap DOMAIN indicator_data = {}

(* C18: when the high, the low and the close of every record of the        *)
(* trailing window are one same price, the latest value of calculate_cci   *)
(* is 0, whatever the period.                                              *)
C18_ConstantWindow(period) ==
    /\ period >= 1
    /\ Len(historical_data) >= period
    /\ \A i \in 1..period :
          /\ historical_data[i].maxprice = historical_data[1].close
          /\ historical_data[i].minprice = historical_data[1].close
          /\ historical_data[i].close = historical_data[1].close

C18_ZeroOnConstantWindow ==
    (last.op = "calculate_cci" /\ C18_ConstantWindow(last.period))
        => Latest(last.values) = 0

(* C19: the category of every indicator of the table is the one its exact  *)
(* value has: the moving averages and the oscillator are not rounded       *)
(* before the thresholds are applied.                                      *)
C19_Sum(prices, period) ==
    SumFrom(prices, Len(prices) - period + 1, Len(prices))

(* the category of the price against the exact average sum / period *)
C19_MaTrend(current_price, sum, period) ==
    LET diff == current_price * period - sum IN
    IF diff * 100 > 5 * sum THEN "Strong Buy"
    ELSE IF diff * 100 > 2 * sum THEN "Buy"
    ELSE IF diff * 100 > -2 * sum THEN "Neutral"
    ELSE IF diff * 100 > -5 * sum THEN "Sell"
    ELSE "Strong Sell"

(* the category of the exact averages fast / fast_period and slow / slow_period *)
C19_Crossover(fast, slow, fast_period, slow_period) ==
    LET spread == fast * slow_period - slow * fast_period IN
    IF spread * 1000 > strong_threshold(fast_period) * slow * fast_period THEN "Strong Buy"
    ELSE IF spread * 1000 > weak_threshold(fast_period) * slow * fast_period THEN "Buy"
    ELSE IF spread * 1000 > -weak_threshold(fast_period) * slow * fast_period THEN "Neutral"
    ELSE IF spread * 1000 > -strong_threshold(fast_period) * slow * fast_period THEN "Sell"
    ELSE "Strong Sell"

RECURSIVE C19_Deviation(_, _, _, _, _)
C19_Deviation(tp, lo, hi, period, sum) ==
    IF lo > hi THEN 0
    ELSE (IF tp[lo] * period >= sum THEN tp[lo] * period - sum ELSE sum - tp[lo] * period)
         + C19_Deviation(tp, lo + 1, hi, period, sum)

(* the category of the exact oscillator                                    *)
(*   (tp - sum / period) / (0.015 * deviation / period^2)                  *)
C19_Cci(tp, period) ==
    LET sum == C19_Sum(tp, period)
        deviation == C19_Deviation(tp, Len(tp) - period + 1, Len(tp), period, sum)
        distance == (Latest(tp) * period - sum) * period
    IN  IF deviation = 0 THEN "Neutral"
        ELSE IF distance > 3 * deviation THEN "Strong Sell"
        ELSE IF distance * 2 > 3 * deviation THEN "Sell"
        ELSE IF distance * 2 > -3 * deviation THEN "Neutral"
        ELSE IF distance > -3 * deviation THEN "Buy"
        ELSE "Strong Buy"

C19_ExactCategory(name) ==
    LET close_prices == Chronological(historical_data, "close")
        typical_prices ==
            [i \in 1..Len(historical_data) |->
                Chronological(historical_data, "maxprice")[i]
                + Chronological(historical_data, "minprice")[i]
                + close_prices[i]]
    IN  IF name = "CCI-20" THEN C19_Cci(typical_prices, 20)
        ELSE IF \E period \in ma_periods : name = MaName(period)
        THEN LET period == CHOOSE q \in ma_periods : name = MaName(q)
             IN  C19_MaTrend(Latest(close_prices), C19_Sum(close_prices, period), period)
        ELSE LET pair == CHOOSE q \in crossover_pairs : name = q[3]
             IN  C19_Crossover(C19_Sum(close_prices, pair[1]), C19_Sum(close_prices, pair[2]),
                               pair[1], pair[2])

C19_CategoryOfUnroundedValue ==
    (last.op = "get_comprehensive_analysis" /\ last.ok)
        => \A name \in DOMAIN indicator_data :
              indicator_data[name][1] = C19_ExactCategory(name)

(* C20: the weighted sentiment is sum(score x weight) / sum(weight) over   *)
(* the indicators of the input that have a weight (CCI-20 15, MA5 2,       *)
(* MA20 8, MA40 10, MA60 10, MA5-MA10 8, MA10-MA20 12, MA20-MA40 20,       *)
(* MA20-MA60 18, MA40-MA60 5), with the scores +2, +1, 0, -1, -2; the      *)
(* category is Strong Buy from 1.3, Buy from 0.4, Neutral from -0.4, Sell  *)
(* from -1.3, else Strong Sell; without a weighted indicator it is         *)
(* Neutral with the score 0.                                               *)
C20_Weight ==
    [name \in WeightedNames |->
        IF name = "CCI-20" THEN 15 ELSE IF name = "MA5" THEN 2
        ELSE IF name = "MA20" THEN 8 ELSE IF name \in {"MA40", "MA60"} THEN 10
        ELSE IF name = "MA5-MA10" THEN 8 ELSE IF name = "MA10-MA20" THEN 12
        ELSE IF name = "MA20-MA40" THEN 20 ELSE IF name = "MA20-MA60" THEN 18
        ELSE 5]

C20_Score ==
    [category \in Categories |->
        IF category = "Strong Buy" THEN 2 ELSE IF category = "Buy" THEN 1
        ELSE IF category = "Neutral" THEN 0 ELSE IF category = "Sell" THEN -1
        ELSE -2]

RECURSIVE C20_Total(_, _)
C20_Total(term, names) ==
    IF names = {} THEN 0
    ELSE LET name == CHOOSE n \in names : TRUE
         IN  term[name] + C20_Total(term, names \ {name})

C20_Present == DOMAIN indicator_data \cap DOMAIN C20_Weight

C20_ScoreSum ==
    C20_Total([name \in C20_Present |->
                  C20_Score[indicator_data[name][1]] * C20_Weight[name]], C20_Present)

C20_WeightSum == C20_Total([name \in C20_Present |-> C20_Weight[name]], C20_Present)

C20_WeightedSentiment ==
    last.op = "calculate_weighted_sentiment"
        => IF C20_Present = {}
           THEN last.sentiment.category = "Neutral" /\ last.sentiment.num = 0
           ELSE /\ last.sentiment.den > 0
                /\ last.sentiment.num * C20_WeightSum = C20_ScoreSum * last.sentiment.den
                /\ last.sentiment.category =
                       (IF 10 * C20_ScoreSum >= 13 * C20_WeightSum THEN "Strong Buy"
                        ELSE IF 10 * C20_ScoreSum >= 4 * C20_WeightSum THEN "Buy"
                        ELSE IF 10 * C20_ScoreSum >= -4 * C20_WeightSum THEN "Neutral"
                        ELSE IF 10 * C20_ScoreSum >= -13 * C20_WeightSum THEN "Sell"
                        ELSE "Strong Sell")

C20_Witness ==
    /\ last.op = "calculate_weighted_sentiment"
    /\ DOMAIN indicator_data = {"MA5", "MA20"}
    /\ 10 * last.sentiment.num = 4 * last.sentiment.den
    /\ last.sentiment.category = "Buy"

---------------------------------------------------------------------------
(* C21: over the instruments with a known change percentage the            *)
(* contribution is -change x weight for an inverse instrument and          *)
(* +change x weight for a positive one, and overall_score is the sum of    *)
(* the contributions over the sum of the weights; for a +1.00% move of     *)
(* both DXY (0.25, inverse) and VIX (0.18, positive) the contributions are *)
(* -0.25 and +0.18, the score is -0.07 / 0.43, the recommendation is HOLD  *)
(* and the confidence is 7 / 0.43, about 16.28.                            *)
C21_Percent(text) ==
    CASE text = <<"+", "1", ".", "0", "0", "%">> -> 100
      [] text = <<"-", "1", ".", "0", "0", "%">> -> -100
      [] text = <<"+", "0", ".", "3", "0", "%">> -> 30
      [] text = <<"-", "0", ".", "3", "0", "%">> -> -30
      [] text = <<"+", "0", ".", "3", "1", "%">> -> 31
      [] text = <<"-", "0", ".", "9", "5", "%">> -> -95
      [] text = <<"+", "2", ".", "5", "%">> -> 250
      [] text = <<"0", "%">> -> 0

C21_Known == {symbol \in DOMAIN args.market_data :
                 args.market_data[symbol].change_percent # NoneText}

C21_Contribution(symbol) ==
    IF symbol \in {"DXY", "US10Y", "TIPS"}
    THEN -(C21_Percent(args.market_data[symbol].change_percent)
              * args.market_data[symbol].weight)
    ELSE C21_Percent(args.market_data[symbol].change_percent)
              * args.market_data[symbol].weight

C21_Scenario ==
    /\ DOMAIN args.market_data = {"DXY", "VIX"}
    /\ \A symbol \in {"DXY", "VIX"} :
          args.market_data[symbol].change_percent = <<"+", "1", ".", "0", "0", "%">>

C21_ImpactScore ==
    (last.op = "calculate_gold_impact_score" /\ ~last.result.none)
        => /\ DOMAIN last.result.factor_scores = C21_Known
           /\ \A symbol \in C21_Known :
                 last.result.factor_scores[symbol] = C21_Contribution(symbol)
           /\ C21_Known # {} =>
                 last.result.overall_score.num
                     * 100 * SumOver([symbol \in C21_Known |-> args.market_data[symbol].weight],
                                     C21_Known)
                 = SumOver([symbol \in C21_Known |-> C21_Contribution(symbol)], C21_Known)
                     * last.result.overall_score.den
           /\ C21_Scenario =>
                 /\ last.result.factor_scores["DXY"] = -2500
                 /\ last.result.factor_scores["VIX"] = 1800
                 /\ last.result.overall_score.num * 4300
                        = -700 * last.result.overall_score.den
                 /\ last.result.recommendation = "HOLD"
                 /\ last.result.confidence.num * 43
                        = 700 * last.result.confidence.den

C21_Witness ==
    /\ last.op = "calculate_gold_impact_score"
    /\ C21_Scenario
    /\ last.result.recommendation = "HOLD"

(* C22: in every result the recommendation is BUY exactly when             *)
(* overall_score > 0.3, SELL exactly when overall_score < -0.3, HOLD       *)
(* otherwise, and confidence is min(|overall_score| x 100, 95), between 0  *)
(* and 95.                                                                 *)
C22_Score == last.result.overall_score

C22_RecommendationAndConfidence ==
    (last.op = "calculate_gold_impact_score" /\ ~last.result.none)
        => /\ C22_Score.den > 0
           /\ (last.result.recommendation = "BUY") = (10 * C22_Score.num > 3 * C22_Score.den)
           /\ (last.result.recommendation = "SELL") = (10 * C22_Score.num < -3 * C22_Score.den)
           /\ (last.result.recommendation = "HOLD")
                  = (/\ 10 * C22_Score.num <= 3 * C22_Score.den
                     /\ 10 * C22_Score.num >= -3 * C22_Score.den)
           /\ last.result.confidence.den > 0
           /\ IF Abs(C22_Score.num) * 100 < 95 * C22_Score.den
              THEN /\ last.result.confidence.num = Abs(C22_Score.num) * 100
                   /\ last.result.confidence.den = C22_Score.den
              ELSE last.result.confidence.num = 95 * last.result.confidence.den
           /\ last.result.confidence.num >= 0
           /\ last.result.confidence.num <= 95 * last.result.confidence.den

C22_Witness ==
    /\ last.op = "calculate_gold_impact_score"
    /\ ~last.result.none
    /\ 10 * C22_Score.num = 3 * C22_Score.den
    /\ last.result.recommendation = "HOLD"

(* C23: an input with zero total weight, the empty map or a map in which   *)
(* no instrument has a known change percentage, gives a result with        *)
(* overall_score 0, recommendation HOLD and confidence 0.                  *)
C23_ZeroWeightGivesHold ==
    (last.op = "calculate_gold_impact_score" /\ C21_Known = {})
        => /\ ~last.result.none
           /\ last.result.overall_score.num = 0
           /\ last.result.recommendation = "HOLD"
           /\ last.result.confidence.num = 0

---------------------------------------------------------------------------
(* C24: for a series of 60 closes that rises by 1 a day, whatever the      *)
(* start, the trend of the short moving averages (MA5, MA20) is Buy or     *)
(* Strong Buy and so is the MA20-MA40 crossover.                           *)
C24_Bullish(name) == indicator_data[name][1] \in {"Buy", "Strong Buy"}

C24_Analysed == last.op = "get_comprehensive_analysis" /\ last.ok

(* the latest close, in dollars *)
C24_Latest == historical_data[1].close \div 1000

C28_Strong == IF args.fast_period <= 10 THEN 150 ELSE IF args.fast_period <= 20 THEN 200 ELSE 100

C28_Weak == IF args.fast_period <= 10 THEN 50 ELSE IF args.fast_period <= 20 THEN 80 ELSE 30

(* s > hundredths / 100 *)
C28_SpreadAbove(hundredths) ==
    (args.ma_fast - args.ma_slow) * 10000 > hundredths * args.ma_slow

C28_CrossoverCategory ==
    last.op = "categorize_ma_crossover"
        => last.category =
              (IF C28_SpreadAbove(C28_Strong) THEN "Strong Buy"
               ELSE IF C28_SpreadAbove(C28_Weak) THEN "Buy"
               ELSE IF C28_SpreadAbove(-C28_Weak) THEN "Neutral"
               ELSE IF C28_SpreadAbove(-C28_Strong) THEN "Sell"
               ELSE "Strong Sell")

C28_Witness ==
    /\ last.op = "categorize_ma_crossover"
    /\ args.fast_period = 10
    /\ (args.ma_fast - args.ma_slow) * 1000 = 15 * args.ma_slow
    /\ last.category = "Buy"

(* the interface the failure kinds are reported through *)
C25_Interface ==
    {"get_cached_or_fresh_data", "get_current_gold_price", "get_detailed_market_info",
     "get_raw_api_response", "fetch_gold_price_from_api", "fetch_historical_data"}

(* the labels that name a failure kind *)
C25_TransportLabels == {"Request failed", "HTTP Error"}
C25_ApplicationLabels == {"API Error"}

(* C25: a failing operation tells its caller which kind of failure it was: *)
(* after a request that met a transport failure the returned label is a    *)
(* transport label, and after one answered with an embedded error code it  *)
(* is the application-error label.                                         *)
C25_FailureKindsDistinct ==
    (last.op \in C25_Interface /\ last.sent = 1)
        => /\ TransportFailure(last.reply) => last.label.kind \in C25_TransportLabels
           /\ (~TransportFailure(last.reply) /\ HasErrorCode(last.reply))
                 => last.label.kind \in C25_ApplicationLabels

(* C26: last_fetch_time never decreases: once set it is replaced only by   *)
(* an equal or a later instant, whatever the interleaving of the calls.    *)
C26_FetchTimeNeverDecreases ==
    [][ last_fetch_time # NoneInt => last_fetch_time' >= last_fetch_time ]_vars

(* a request was answered with an embedded error code, or with success *)
C27_ApplicationError(done) ==
    done.sent = 1 /\ ~TransportFailure(done.reply) /\ HasErrorCode(done.reply)

C27_UpstreamSuccess(done) ==
    done.sent = 1 /\ ~TransportFailure(done.reply) /\ ~HasErrorCode(done.reply)

(* C27: the error slot is one slot that follows the upstream outcomes: an  *)
(* embedded error code is stored with its raw message (overwriting what    *)
(* was there), a successful upstream call clears the slot, and anything    *)
(* else (a transport failure, a cache hit, a refusal) leaves it alone;     *)
(* get_last_error_info reports the stored code, its description and the    *)
(* raw message while the slot holds a code, and no error when it is clear. *)
C27_ErrorSlotFollowsUpstream ==
    [][ IF last'.op = "get_last_error_info"
        THEN /\ UNCHANGED error_vars
             /\ last'.info =
                   IF last_error_code = NoneInt THEN NoErrorInfo
                   ELSE [error_code |-> last_error_code,
                         description |-> get_error_description(last_error_code),
                         message |-> last_error_message]
        ELSE IF C27_ApplicationError(last')
        THEN /\ last_error_code' = last'.reply.code
             /\ last_error_message' = ReplyMsg(last'.reply)
        ELSE IF C27_UpstreamSuccess(last')
        THEN /\ last_error_code' = NoneInt
             /\ last_error_message' = NoneStr
        ELSE UNCHANGED error_vars ]_vars

(* C29: one refresh cycle of the worker (get_current_gold_price, then      *)
(* get_detailed_market_info with the same force flag) sends at most one    *)
(* request to the spot-quote API.                                          *)
C29_OneRequestPerCycle ==
    (gui.window /\ gui.pc \notin {"price", "info"}) => gui.cycle_sent <= 1

(* a caller is fetching: it has decided to fetch and has no reply yet *)
C30_Fetching(c) == callers[c].pc \in {"rate", "fetch"}

(* C30: at most one fetch of the spot resource is in flight, a worker is   *)
(* started only while none is running, and the main thread fetches only    *)
(* while no worker is running.                                             *)
C30_OneFetchInFlight ==
    [][ /\ ~ (C30_Fetching(WorkerThread)' /\ C30_Fetching(MainThread)')
        /\ gui.window /\ gui'.started > gui.started => ~gui.running
        /\ (gui.window /\ C30_Fetching(MainThread)') => ~gui'.running ]_vars

====
